---- MODULE Spec2Model ----
(***************************************************************************)
(* Model of the rule-based request classifier of src/src/auth.ts           *)
(* (classifyByRules and its helpers), of the credential loader of the same *)
(* file, of the plugin entry of src/unnamed/part_000, and of the router,    *)
(* the proxy pipeline and the classification cache as their contracts      *)
(* describe them.                                                          *)
(*                                                                         *)
(* Texts are real strings: TLC evaluates Len, SubSeq and \o on strings, so *)
(* trimming, lower-casing, substring search and the regular expressions    *)
(* are computed character by character, as the code computes them.  The    *)
(* alphabet is ASCII.                                                      *)
(*                                                                         *)
(* Numbers are fixed point:                                                *)
(*   dimension scores        in tenths      (0.5  is 5)                    *)
(*   dimension weights       in hundredths  (0.08 is 8)                    *)
(*   weighted score, tier boundaries, distances                            *)
(*                           in thousandths (0.15 is 150)                  *)
(*   confidences, confidenceThreshold                                      *)
(*                           in hundredths, rounded down (0.95 is 95)      *)
(***************************************************************************)
EXTENDS Integers, Sequences, FiniteSets, TLC

VARIABLES
    \* classifyByRules: the arguments of the call, its result and the return
    \* statement reached
    prompt, systemPrompt, estimatedTokens, config, result, pc,
    \* the credential loader: the process environment (keychain, environment
    \* variables, files), the module variable authCache, the last call and its
    \* return value, the number of getAuth calls since the start or the last
    \* reloadAuth (2 stands for 2 or more), the map the last run of
    \* loadAuthProfiles returned
    environment, authCache, call, getAuthsSinceReload, loadedMap,
    \* the router: the answer of the LLM classifier (<<>> while it was not
    \* asked) and the RoutingDecision of the request
    llmResult, decision,
    \* the proxy: for each request in flight its state, its tier, the models
    \* tried upstream so far, the status of the last upstream response and
    \* whether the client went away
    requests,
    \* the LLM classifier: its classification cache (a set of entries with distinct
    \* fingerprints), the monotonic clock in seconds, the holder of the
    \* cache's mutex (0 when free) and, for each request that asks the
    \* classifier, how far it got
    classificationCache, now, mutex, classifications,
    \* the plugin: the plugin config of the host, how far activate got with
    \* what it holds, and the lines written to api.logger
    pluginConfig, plugin, log

classifierVars == <<prompt, systemPrompt, estimatedTokens, config, result, pc>>

authVars == <<environment, authCache, call, getAuthsSinceReload, loadedMap>>

routerVars == <<llmResult, decision>>

proxyVars == <<requests>>

cacheVars == <<classificationCache, now, mutex, classifications>>

pluginVars == <<pluginConfig, plugin, log>>

pipelineVars == <<routerVars, proxyVars, cacheVars, pluginVars>>

vars == <<classifierVars, authVars, pipelineVars>>

(***************************************************************************)
(* Characters and strings                                                  *)
(***************************************************************************)

\* The character of s at position i (1-based), as a one-character string.
CharAt(s, i) == SubSeq(s, i, i)

\* ECMAScript WhiteSpace and LineTerminator characters of the alphabet:
\* what String.prototype.trim strips and what \s matches.
WhiteSpaceChars == {" ", "\t", "\n", "\r"}

\* ECMAScript LineTerminator characters: what "." does not match.
LineTerminatorChars == {"\n", "\r"}

\* The characters \w matches; \b is a change of word-ness between neighbours.
WordChars ==
    {"a","b","c","d","e","f","g","h","i","j","k","l","m","n","o","p","q","r",
     "s","t","u","v","w","x","y","z",
     "A","B","C","D","E","F","G","H","I","J","K","L","M","N","O","P","Q","R",
     "S","T","U","V","W","X","Y","Z",
     "0","1","2","3","4","5","6","7","8","9","_"}

DigitChars == {"0","1","2","3","4","5","6","7","8","9"}

UpperCaseChars ==
    {"A","B","C","D","E","F","G","H","I","J","K","L","M","N","O","P","Q","R",
     "S","T","U","V","W","X","Y","Z"}

\* String.prototype.toLowerCase on the letters it changes.
LowerCaseOf ==
     ("A" :> "a") @@ ("B" :> "b") @@ ("C" :> "c") @@ ("D" :> "d") @@ ("E" :>
     "e") @@ ("F" :> "f") @@ ("G" :> "g") @@ ("H" :> "h") @@ ("I" :> "i") @@
     ("J" :> "j") @@ ("K" :> "k") @@ ("L" :> "l") @@ ("M" :> "m") @@ ("N" :>
     "n") @@ ("O" :> "o") @@ ("P" :> "p") @@ ("Q" :> "q") @@ ("R" :> "r") @@
     ("S" :> "s") @@ ("T" :> "t") @@ ("U" :> "u") @@ ("V" :> "v") @@ ("W" :>
     "w") @@ ("X" :> "x") @@ ("Y" :> "y") @@ ("Z" :> "z")

\* String.prototype.toLowerCase on one character.
lowerChar(c) == IF c \in UpperCaseChars THEN LowerCaseOf[c] ELSE c

RECURSIVE lowerFrom(_, _)
lowerFrom(s, i) ==
    IF i > Len(s) THEN "" ELSE lowerChar(CharAt(s, i)) \o lowerFrom(s, i + 1)

\* String.prototype.toLowerCase.  A string without upper-case letters is
\* returned as it is.
toLowerCase(s) ==
    IF \A i \in 1..Len(s) : CharAt(s, i) \notin UpperCaseChars THEN s
    ELSE lowerFrom(s, 1)

\* String.prototype.trim: strips white space and line terminators at both ends.
trim(s) ==
    LET n      == Len(s)
        ws(i)  == CharAt(s, i) \in WhiteSpaceChars
    IN  IF \A i \in 1..n : ws(i) THEN ""
        ELSE LET lo == CHOOSE i \in 1..n : ~ws(i) /\ \A j \in 1..(i - 1) : ws(j)
                 hi == CHOOSE i \in 1..n : ~ws(i) /\ \A j \in (i + 1)..n : ws(j)
             IN  SubSeq(s, lo, hi)

\* lit occurs in s starting at position i.
LitAt(s, i, lit) ==
    /\ i >= 1
    /\ i + Len(lit) - 1 <= Len(s)
    /\ SubSeq(s, i, i + Len(lit) - 1) = lit

\* String.prototype.includes.
includes(s, lit) ==
    LET n == Len(lit)
    IN  \E i \in 1..(Len(s) - n + 1) : SubSeq(s, i, i + n - 1) = lit

\* ^lit : s starts with lit.
StartsWith(s, lit) == LitAt(s, 1, lit)

\* Is position i of s (0 and Len(s)+1 are outside the string) a word character?
IsWordAt(s, i) == i >= 1 /\ i <= Len(s) /\ CharAt(s, i) \in WordChars

\* \b between positions i and i+1 of s (i in 0..Len(s)).
WordBoundary(s, i) == IsWordAt(s, i) # IsWordAt(s, i + 1)

\* Every character of s at positions i..j is matched by "." (no line terminator).
DotRun(s, i, j) == \A k \in i..j : CharAt(s, k) \notin LineTerminatorChars

\* \b(lit)\b matches s with lit starting at i.
WordLitAt(s, i, lit) ==
    /\ LitAt(s, i, lit)
    /\ WordBoundary(s, i - 1)
    /\ WordBoundary(s, i + Len(lit) - 1)

\* /\b(l1|l2|...)\b/ matches somewhere in s.
ContainsWordLit(s, lits) ==
    \E i \in 1..Len(s) :
      /\ WordBoundary(s, i - 1)
      /\ \E lit \in lits : LitAt(s, i, lit) /\ WordBoundary(s, i + Len(lit) - 1)

(***************************************************************************)
(* Quick pattern matchers (fast path)                                      *)
(*                                                                         *)
(* Each regular expression is translated structurally.  A pattern with the *)
(* i flag is matched against the case-folded subject t, which              *)
(* quickPatternMatch computes once; the literals of the patterns are lower *)
(* case.  An alternation matches when one of its alternatives does (the    *)
(* matcher backtracks).                                                    *)
(* The non-ASCII greetings of the first pattern are outside the alphabet.  *)
(***************************************************************************)

\* /^(hi|hey|hello|yo|sup|hola|bonjour|hallo|...)\b/i
Greetings == {"hi", "hey", "hello", "yo", "sup", "hola", "bonjour", "hallo"}
SimpleGreeting(t) ==
    \E g \in Greetings : StartsWith(t, g) /\ WordBoundary(t, Len(g))

\* /^what('s| is) (your name|the weather|the time|today|up)/i
SimpleWhatIs(t) ==
    \E a \in {"what's", "what is"} :
      \E b \in {"your name", "the weather", "the time", "today", "up"} :
        StartsWith(t, a \o " " \o b)

\* /^(yes|no|ok|okay|okie|sure|thanks|thank you|thx|ty|cool|nice|got it|sounds good)\s*[.!?]?$/i
Acknowledgments ==
    {"yes", "no", "ok", "okay", "okie", "sure", "thanks", "thank you", "thx",
     "ty", "cool", "nice", "got it", "sounds good"}
SimpleAcknowledgment(t) ==
    LET n == Len(t)
    IN  \E w \in Acknowledgments :
          /\ StartsWith(t, w)
          /\ \E e \in Len(w)..n :          \* \s* covers positions Len(w)+1..e
               /\ \A k \in (Len(w) + 1)..e : CharAt(t, k) \in WhiteSpaceChars
               /\ \/ e = n
                  \/ e + 1 = n /\ CharAt(t, n) \in {".", "!", "?"}

\* /^(are you (there|here|still there|awake|around|available|online)|you (there|here|ok))\??$/i
CheckIns ==
    {"are you there", "are you here", "are you still there", "are you awake",
     "are you around", "are you available", "are you online",
     "you there", "you here", "you ok"}
SimpleCheckIn(t) ==
    \E c \in CheckIns : t = c \/ t = c \o "?"

\* /^(who|what|where|when|how old|how much|how many) (is|are|was|were) /i
SimpleQuestionStem(t) ==
    \E q \in {"who", "what", "where", "when", "how old", "how much", "how many"} :
      \E v \in {"is", "are", "was", "were"} :
        StartsWith(t, q \o " " \o v \o " ")

\* /^(define|translate|meaning of) /i
SimpleDefine(t) ==
    \E d \in {"define", "translate", "meaning of"} : StartsWith(t, d \o " ")

\* /^.{1,20}$/ : one to twenty characters, none a line terminator.  The
\* pattern has no i flag and reads neither the case nor the letters.
SimpleShort(t) == Len(t) >= 1 /\ Len(t) <= 20 /\ DotRun(t, 1, Len(t))

\* Some pattern of SIMPLE_PATTERNS matches the subject.
SIMPLE_PATTERNS(t) ==
    \/ SimpleGreeting(t)
    \/ SimpleWhatIs(t)
    \/ SimpleAcknowledgment(t)
    \/ SimpleCheckIn(t)
    \/ SimpleQuestionStem(t)
    \/ SimpleDefine(t)
    \/ SimpleShort(t)

\* /^(write|create|make|build|implement|code|debug|fix|develop|generate) (a |an |the |some )/i
MediumImperative(t) ==
    \E v \in {"write", "create", "make", "build", "implement", "code", "debug",
              "fix", "develop", "generate"} :
      \E a \in {"a ", "an ", "the ", "some "} :
        StartsWith(t, v \o " " \o a)

\* /\b(function|class|component|api|endpoint)\b.*\b(write|create|implement|build|code)\b/i
MediumNounThenVerb(t) ==
    LET n == Len(t)
    IN  \E x \in {"function", "class", "component", "api", "endpoint"} :
          \E i \in 1..(n - Len(x) + 1) :
            /\ WordBoundary(t, i - 1)
            /\ WordLitAt(t, i, x)
            /\ \E y \in {"write", "create", "implement", "build", "code"} :
                 \E j \in (i + Len(x))..(n - Len(y) + 1) :
                   /\ DotRun(t, i + Len(x), j - 1)
                   /\ WordLitAt(t, j, y)

\* Some pattern of MEDIUM_PATTERNS matches the subject.
MEDIUM_PATTERNS(t) == MediumImperative(t) \/ MediumNounThenVerb(t)

\* /\b(architect|design system|microservice|distributed|scalab|infrastructure)\b/i
\* /\b(optimize|refactor|migrate|overhaul)\b/i
COMPLEX_PATTERNS(t) ==
    \/ ContainsWordLit(t, {"architect", "design system", "microservice",
                           "distributed", "scalab", "infrastructure"})
    \/ ContainsWordLit(t, {"optimize", "refactor", "migrate", "overhaul"})

\* The alternative step.by.step.*reason of the first REASONING pattern,
\* between word boundaries.
StepByStepReason(t) ==
    LET n == Len(t)
    IN  \E i \in 1..(n - 11) :
          /\ LitAt(t, i, "step") /\ DotRun(t, i + 4, i + 4)
          /\ LitAt(t, i + 5, "by") /\ DotRun(t, i + 7, i + 7)
          /\ LitAt(t, i + 8, "step")
          /\ WordBoundary(t, i - 1)
          /\ \E j \in (i + 12)..(n - 5) :
               /\ DotRun(t, i + 12, j - 1)
               /\ LitAt(t, j, "reason")
               /\ WordBoundary(t, j + 5)

\* /\b(prove|theorem|derive|proof|formally verify|step.by.step.*reason)\b/i
\* /\b(mathematical proof|logical derivation|chain of thought)\b/i
REASONING_PATTERNS(t) ==
    \/ ContainsWordLit(t, {"prove", "theorem", "derive", "proof", "formally verify"})
    \/ StepByStepReason(t)
    \/ ContainsWordLit(t, {"mathematical proof", "logical derivation",
                           "chain of thought"})

\* The value null of a tier and of quickPatternMatch's result.
Null == "null"

Tiers == {"SIMPLE", "MEDIUM", "COMPLEX", "REASONING"}

NoMatch == [tier |-> Null, confidence |-> 0]

\* A variant that tries the COMPLEX group before the REASONING group.
quickPatternMatch_ComplexFirst(userText) ==
    LET trimmed == trim(userText)
        t       == toLowerCase(trimmed)
    IN  IF SIMPLE_PATTERNS(t) THEN [tier |-> "SIMPLE", confidence |-> 95]
        ELSE IF COMPLEX_PATTERNS(t) THEN [tier |-> "COMPLEX", confidence |-> 85]
        ELSE IF REASONING_PATTERNS(t) THEN [tier |-> "REASONING", confidence |-> 90]
        ELSE IF MEDIUM_PATTERNS(t) THEN [tier |-> "MEDIUM", confidence |-> 80]
        ELSE NoMatch

\* The groups are tried in the order SIMPLE, REASONING, COMPLEX, MEDIUM on the
\* trimmed text.
quickPatternMatch(userText) ==
    LET trimmed == trim(userText)
        t       == toLowerCase(trimmed)
    IN  IF SIMPLE_PATTERNS(t) THEN [tier |-> "SIMPLE", confidence |-> 95]
        ELSE IF REASONING_PATTERNS(t) THEN [tier |-> "REASONING", confidence |-> 90]
        ELSE IF COMPLEX_PATTERNS(t) THEN [tier |-> "COMPLEX", confidence |-> 85]
        ELSE IF MEDIUM_PATTERNS(t) THEN [tier |-> "MEDIUM", confidence |-> 80]
        ELSE NoMatch

(***************************************************************************)
(* Dimension scorers                                                       *)
(*                                                                         *)
(* A DimensionScore is [name, score, signal]; signal is a string or Null.  *)
(***************************************************************************)

Max(a, b) == IF a >= b THEN a ELSE b
Min(a, b) == IF a <= b THEN a ELSE b

\* Array.prototype.filter on the array of keywords: those that text includes.
\* The keyword, not the text, is lower-cased here.
KeywordMatches(text, keywords) ==
    SelectSeq(keywords, LAMBDA kw : includes(text, toLowerCase(kw)))

\* Array.prototype.slice(0, 3).
FirstThree(seq) == SubSeq(seq, 1, Min(Len(seq), 3))

\* Array.prototype.join(", ").
RECURSIVE JoinComma(_)
JoinComma(seq) ==
    IF seq = <<>> THEN ""
    ELSE IF Len(seq) = 1 THEN seq[1]
    ELSE seq[1] \o ", " \o JoinComma(Tail(seq))

scoreTokenCount(tokens, thresholds) ==
    IF tokens < thresholds.simple
    THEN [name |-> "tokenCount", score |-> -10,
          signal |-> "short (" \o ToString(tokens) \o " tokens)"]
    ELSE IF tokens > thresholds.complex
    THEN [name |-> "tokenCount", score |-> 10,
          signal |-> "long (" \o ToString(tokens) \o " tokens)"]
    ELSE [name |-> "tokenCount", score |-> 0, signal |-> Null]

\* scoreKeywordMatch with the low threshold tested before the high one.
scoreKeywordMatch_LowFirst(text, keywords, name, signalLabel, thresholds, scores) ==
    LET matches == KeywordMatches(text, keywords)
        signal  == signalLabel \o " (" \o JoinComma(FirstThree(matches)) \o ")"
    IN  IF Len(matches) >= thresholds.low
        THEN [name |-> name, score |-> scores.low, signal |-> signal]
        ELSE IF Len(matches) >= thresholds.high
        THEN [name |-> name, score |-> scores.high, signal |-> signal]
        ELSE [name |-> name, score |-> scores.none, signal |-> Null]

scoreKeywordMatch(text, keywords, name, signalLabel, thresholds, scores) ==
    LET matches == KeywordMatches(text, keywords)
        signal  == signalLabel \o " (" \o JoinComma(FirstThree(matches)) \o ")"
    IN  IF Len(matches) >= thresholds.high
        THEN [name |-> name, score |-> scores.high, signal |-> signal]
        ELSE IF Len(matches) >= thresholds.low
        THEN [name |-> name, score |-> scores.low, signal |-> signal]
        ELSE [name |-> name, score |-> scores.none, signal |-> Null]

\* /first.*then/i
MultiStepFirstThen(t) ==
    \E i \in 1..(Len(t) - 8) :
      /\ LitAt(t, i, "first")
      /\ \E j \in (i + 5)..(Len(t) - 3) : DotRun(t, i + 5, j - 1) /\ LitAt(t, j, "then")

\* /step \d/i
MultiStepStepN(t) ==
    \E i \in 1..(Len(t) - 5) : LitAt(t, i, "step ") /\ CharAt(t, i + 5) \in DigitChars

\* /\d\.\s/
MultiStepNumbered(t) ==
    \E i \in 1..(Len(t) - 2) :
      /\ CharAt(t, i) \in DigitChars
      /\ CharAt(t, i + 1) = "."
      /\ CharAt(t, i + 2) \in WhiteSpaceChars

scoreMultiStep(text) ==
    LET t == toLowerCase(text)
    IN  IF MultiStepFirstThen(t) \/ MultiStepStepN(t) \/ MultiStepNumbered(text)
        THEN [name |-> "multiStepPatterns", score |-> 5, signal |-> "multi-step"]
        ELSE [name |-> "multiStepPatterns", score |-> 0, signal |-> Null]

scoreQuestionComplexity(p) ==
    LET count == Cardinality({i \in 1..Len(p) : CharAt(p, i) = "?"})
    IN  IF count > 3
        THEN [name |-> "questionComplexity", score |-> 5,
              signal |-> ToString(count) \o " questions"]
        ELSE [name |-> "questionComplexity", score |-> 0, signal |-> Null]

\* scoreAgenticTask with three matches scored like four.
scoreAgenticTask_ThreeIsFull(text, keywords) ==
    LET matched    == KeywordMatches(text, keywords)
        matchCount == Len(matched)
        signals    == FirstThree(matched)
    IN  IF matchCount >= 3
        THEN [dimensionScore |-> [name |-> "agenticTask", score |-> 10,
                                  signal |-> "agentic (" \o JoinComma(signals) \o ")"],
              agenticScore |-> 10]
        ELSE IF matchCount >= 1
        THEN [dimensionScore |-> [name |-> "agenticTask", score |-> 2,
                                  signal |-> "agentic-light (" \o JoinComma(signals) \o ")"],
              agenticScore |-> 2]
        ELSE [dimensionScore |-> [name |-> "agenticTask", score |-> 0, signal |-> Null],
              agenticScore |-> 0]

scoreAgenticTask(text, keywords) ==
    LET matched    == KeywordMatches(text, keywords)
        matchCount == Len(matched)
        signals    == FirstThree(matched)
    IN  IF matchCount >= 4
        THEN [dimensionScore |-> [name |-> "agenticTask", score |-> 10,
                                  signal |-> "agentic (" \o JoinComma(signals) \o ")"],
              agenticScore |-> 10]
        ELSE IF matchCount >= 3
        THEN [dimensionScore |-> [name |-> "agenticTask", score |-> 6,
                                  signal |-> "agentic (" \o JoinComma(signals) \o ")"],
              agenticScore |-> 6]
        ELSE IF matchCount >= 1
        THEN [dimensionScore |-> [name |-> "agenticTask", score |-> 2,
                                  signal |-> "agentic-light (" \o JoinComma(signals) \o ")"],
              agenticScore |-> 2]
        ELSE [dimensionScore |-> [name |-> "agenticTask", score |-> 0, signal |-> Null],
              agenticScore |-> 0]

(***************************************************************************)
(* Sigmoid confidence calibration                                          *)
(***************************************************************************)

\* SigmoidSteps[k] is the least x, in thousandths, at which the double
\* 1 / (1 + Math.exp(-x)) is at least k/100 (k = 1..100).  The last entry is
\* where the double rounds to exactly 1.
SigmoidSteps ==
    <<-4595, -3891, -3476, -3178, -2944, -2751, -2586, -2442, -2313, -2197,
      -2090, -1992, -1900, -1815, -1734, -1658, -1585, -1516, -1450, -1386,
      -1324, -1265, -1208, -1152, -1098, -1045, -994, -944, -895, -847,
      -800, -753, -708, -663, -619, -575, -532, -489, -447, -405,
      -363, -322, -281, -241, -200, -160, -120, -80, -40, 0,
      41, 81, 121, 161, 201, 242, 282, 323, 364, 406,
      448, 490, 533, 576, 620, 664, 709, 754, 801, 848,
      896, 945, 995, 1046, 1099, 1153, 1209, 1266, 1325, 1387,
      1451, 1517, 1586, 1659, 1735, 1816, 1901, 1993, 2091, 2198,
      2314, 2443, 2587, 2752, 2945, 3179, 3477, 3892, 4596, 36737>>

\* 1 / (1 + Math.exp(-steepness * distance)), in hundredths rounded down.
\* distance is in thousandths; a comparison of the result with a number of
\* hundredths is exact.
calibrateConfidence(distance, steepness) ==
    LET x == steepness * distance
    IN  Cardinality({k \in 1..100 : SigmoidSteps[k] <= x})

(***************************************************************************)
(* Main classifier                                                         *)
(***************************************************************************)

\* A variant that weighs a dimension without a weight by 1.
WeightOf_DefaultOne(weights, name) == IF name \in DOMAIN weights THEN weights[name] ELSE 100

\* weights[d.name] ?? 0
WeightOf(weights, name) == IF name \in DOMAIN weights THEN weights[name] ELSE 0

\* The loop that adds d.score * w over the dimensions.
RECURSIVE WeightedSum(_, _)
WeightedSum(dimensions, weights) ==
    IF dimensions = <<>> THEN 0
    ELSE Head(dimensions).score * WeightOf(weights, Head(dimensions).name)
         + WeightedSum(Tail(dimensions), weights)

\* dimensions.filter((d) => d.signal !== null).map((d) => d.signal)
RECURSIVE SignalsOf(_)
SignalsOf(dimensions) ==
    IF dimensions = <<>> THEN <<>>
    ELSE IF Head(dimensions).signal = Null THEN SignalsOf(Tail(dimensions))
    ELSE <<Head(dimensions).signal>> \o SignalsOf(Tail(dimensions))

\* The fourteen dimensions scored over the user text, in the order of the array.
UserTextDimensions(p, userText, tokens, cfg) ==
    LET text == userText
    IN << scoreTokenCount(tokens, cfg.tokenCountThresholds),
          scoreKeywordMatch(text, cfg.codeKeywords, "codePresence", "code",
                            [low |-> 1, high |-> 2], [none |-> 0, low |-> 5, high |-> 10]),
          scoreKeywordMatch(userText, cfg.reasoningKeywords, "reasoningMarkers", "reasoning",
                            [low |-> 1, high |-> 2], [none |-> 0, low |-> 7, high |-> 10]),
          scoreKeywordMatch(text, cfg.technicalKeywords, "technicalTerms", "technical",
                            [low |-> 2, high |-> 4], [none |-> 0, low |-> 5, high |-> 10]),
          scoreKeywordMatch(text, cfg.creativeKeywords, "creativeMarkers", "creative",
                            [low |-> 1, high |-> 2], [none |-> 0, low |-> 5, high |-> 7]),
          scoreKeywordMatch(text, cfg.simpleKeywords, "simpleIndicators", "simple",
                            [low |-> 1, high |-> 2], [none |-> 0, low |-> -10, high |-> -10]),
          scoreMultiStep(text),
          scoreQuestionComplexity(p),
          scoreKeywordMatch(text, cfg.imperativeVerbs, "imperativeVerbs", "imperative",
                            [low |-> 1, high |-> 2], [none |-> 0, low |-> 3, high |-> 5]),
          scoreKeywordMatch(text, cfg.constraintIndicators, "constraintCount", "constraints",
                            [low |-> 1, high |-> 3], [none |-> 0, low |-> 3, high |-> 7]),
          scoreKeywordMatch(text, cfg.outputFormatKeywords, "outputFormat", "format",
                            [low |-> 1, high |-> 2], [none |-> 0, low |-> 4, high |-> 7]),
          scoreKeywordMatch(text, cfg.referenceKeywords, "referenceComplexity", "references",
                            [low |-> 1, high |-> 2], [none |-> 0, low |-> 3, high |-> 5]),
          scoreKeywordMatch(text, cfg.negationKeywords, "negationComplexity", "negation",
                            [low |-> 2, high |-> 3], [none |-> 0, low |-> 3, high |-> 5]),
          scoreKeywordMatch(text, cfg.domainSpecificKeywords, "domainSpecificity",
                            "domain-specific",
                            [low |-> 1, high |-> 2], [none |-> 0, low |-> 5, high |-> 8]) >>

\* `${systemPrompt ?? ""} ${prompt}`.toLowerCase(); systemPrompt is <<>> when
\* undefined and <<s>> when it is the string s.
FullText(p, sys) ==
    toLowerCase((IF sys = <<>> THEN "" ELSE sys[1]) \o " " \o p)

\* A variant whose SIMPLE distance is the signed difference from the boundary.
BoundaryTier_SignedDistance(weightedScore, tierBoundaries) ==
    LET simpleMedium     == tierBoundaries.simpleMedium
        mediumComplex    == tierBoundaries.mediumComplex
        complexReasoning == tierBoundaries.complexReasoning
    IN  IF weightedScore < simpleMedium
        THEN [tier |-> "SIMPLE", distanceFromBoundary |-> weightedScore - simpleMedium]
        ELSE IF weightedScore < mediumComplex
        THEN [tier |-> "MEDIUM",
              distanceFromBoundary |-> Min(weightedScore - simpleMedium,
                                           mediumComplex - weightedScore)]
        ELSE IF weightedScore < complexReasoning
        THEN [tier |-> "COMPLEX",
              distanceFromBoundary |-> Min(weightedScore - mediumComplex,
                                           complexReasoning - weightedScore)]
        ELSE [tier |-> "REASONING",
              distanceFromBoundary |-> weightedScore - complexReasoning]

\* A variant that compares with <= and takes the distance of MEDIUM and
\* COMPLEX from the farther boundary.
BoundaryTier_FartherBoundary(weightedScore, tierBoundaries) ==
    LET simpleMedium     == tierBoundaries.simpleMedium
        mediumComplex    == tierBoundaries.mediumComplex
        complexReasoning == tierBoundaries.complexReasoning
    IN  IF weightedScore <= simpleMedium
        THEN [tier |-> "SIMPLE", distanceFromBoundary |-> simpleMedium - weightedScore]
        ELSE IF weightedScore <= mediumComplex
        THEN [tier |-> "MEDIUM",
              distanceFromBoundary |-> Max(weightedScore - simpleMedium,
                                           mediumComplex - weightedScore)]
        ELSE IF weightedScore <= complexReasoning
        THEN [tier |-> "COMPLEX",
              distanceFromBoundary |-> Max(weightedScore - mediumComplex,
                                           complexReasoning - weightedScore)]
        ELSE [tier |-> "REASONING",
              distanceFromBoundary |-> weightedScore - complexReasoning]

\* The mapping of the weighted score to a tier and its distance from the
\* nearest boundary of that tier.
BoundaryTier(weightedScore, tierBoundaries) ==
    LET simpleMedium     == tierBoundaries.simpleMedium
        mediumComplex    == tierBoundaries.mediumComplex
        complexReasoning == tierBoundaries.complexReasoning
    IN  IF weightedScore < simpleMedium
        THEN [tier |-> "SIMPLE", distanceFromBoundary |-> simpleMedium - weightedScore]
        ELSE IF weightedScore < mediumComplex
        THEN [tier |-> "MEDIUM",
              distanceFromBoundary |-> Min(weightedScore - simpleMedium,
                                           mediumComplex - weightedScore)]
        ELSE IF weightedScore < complexReasoning
        THEN [tier |-> "COMPLEX",
              distanceFromBoundary |-> Min(weightedScore - mediumComplex,
                                           complexReasoning - weightedScore)]
        ELSE [tier |-> "REASONING",
              distanceFromBoundary |-> weightedScore - complexReasoning]

\* A variant that reports the quick match's confidence as the score.
FastPathResult_Scored(quickMatch) ==
    [score |-> quickMatch.confidence, tier |-> quickMatch.tier,
     confidence |-> quickMatch.confidence,
     signals |-> <<"quick-match: " \o quickMatch.tier>>, agenticScore |-> 0]

\* The result of the fast path for a quick match.
FastPathResult(quickMatch) ==
    [score |-> 0, tier |-> quickMatch.tier, confidence |-> quickMatch.confidence,
     signals |-> <<"quick-match: " \o quickMatch.tier>>, agenticScore |-> 0]

\* A variant without the floor of 0.85 on the confidence.
ReasoningOverride_NoFloor(weightedScore, signals, agenticScore, cfg) ==
    LET confidence == calibrateConfidence(Max(weightedScore, 300), cfg.confidenceSteepness)
    IN  [score |-> weightedScore, tier |-> "REASONING",
         confidence |-> confidence,
         signals |-> signals, agenticScore |-> agenticScore]

\* A variant that returns the score it calibrated, max(weightedScore, 0.3).
ReasoningOverride_ClampedScore(weightedScore, signals, agenticScore, cfg) ==
    LET confidence == calibrateConfidence(Max(weightedScore, 300), cfg.confidenceSteepness)
    IN  [score |-> Max(weightedScore, 300), tier |-> "REASONING",
         confidence |-> Max(confidence, 85),
         signals |-> signals, agenticScore |-> agenticScore]

\* The direct reasoning override: two or more reasoning markers.
ReasoningOverride(weightedScore, signals, agenticScore, cfg) ==
    LET confidence == calibrateConfidence(Max(weightedScore, 300), cfg.confidenceSteepness)
    IN  [score |-> weightedScore, tier |-> "REASONING",
         confidence |-> Max(confidence, 85),
         signals |-> signals, agenticScore |-> agenticScore]

\* A variant that returns the mapped tier whatever the confidence.
BoundaryResult_NoThreshold(weightedScore, signals, agenticScore, cfg) ==
    LET mapped     == BoundaryTier(weightedScore, cfg.tierBoundaries)
        confidence == calibrateConfidence(mapped.distanceFromBoundary,
                                          cfg.confidenceSteepness)
    IN  [score |-> weightedScore, tier |-> mapped.tier, confidence |-> confidence,
         signals |-> signals, agenticScore |-> agenticScore]

\* The boundary mapping, the calibration and the threshold test.
BoundaryResult(weightedScore, signals, agenticScore, cfg) ==
    LET mapped     == BoundaryTier(weightedScore, cfg.tierBoundaries)
        confidence == calibrateConfidence(mapped.distanceFromBoundary,
                                          cfg.confidenceSteepness)
    IN  IF confidence < cfg.confidenceThreshold
        THEN [score |-> weightedScore, tier |-> Null, confidence |-> confidence,
              signals |-> signals, agenticScore |-> agenticScore]
        ELSE [score |-> weightedScore, tier |-> mapped.tier, confidence |-> confidence,
              signals |-> signals, agenticScore |-> agenticScore]

\* classifyByRules together with the return statement that produced its
\* result: "fastpath" (the quick match), "override" (the direct reasoning
\* override) or "boundary" (the boundary mapping, with or without a tier).
classifyTrace(p, sys, tokens, cfg) ==
    LET userText   == toLowerCase(p)
        quickMatch == quickPatternMatch(userText)
    IN  IF quickMatch # NoMatch
        THEN [result |-> FastPathResult(quickMatch), returnedAt |-> "fastpath"]
        ELSE
          LET agenticResult == scoreAgenticTask(FullText(p, sys), cfg.agenticTaskKeywords)
              dimensions    == UserTextDimensions(p, userText, tokens, cfg)
                                 \o <<agenticResult.dimensionScore>>
              agenticScore  == agenticResult.agenticScore
              signals       == SignalsOf(dimensions)
              weightedScore == WeightedSum(dimensions, cfg.dimensionWeights)
              reasoningMatches == KeywordMatches(userText, cfg.reasoningKeywords)
          IN  IF Len(reasoningMatches) >= 2
              THEN [result |-> ReasoningOverride(weightedScore, signals, agenticScore, cfg),
                    returnedAt |-> "override"]
              ELSE [result |-> BoundaryResult(weightedScore, signals, agenticScore, cfg),
                    returnedAt |-> "boundary"]

classifyByRules(p, sys, tokens, cfg) == classifyTrace(p, sys, tokens, cfg).result

(***************************************************************************)
(* Inputs                                                                  *)
(*                                                                         *)
(* classifyByRules is a pure function of its four arguments.  The prompts  *)
(* are the concatenations of at most MaxChunks chunks; the configurations  *)
(* are variations of one ScoringConfig.                                    *)
(***************************************************************************)

MaxChunks == 3

Chunks ==
    {"\n", "hello", "prove", "Hypothesis", "optimize", "Write a ", "function"}

RECURSIVE PromptsOf(_)
PromptsOf(n) ==
    IF n = 0 THEN {""}
    ELSE LET shorter == PromptsOf(n - 1)
         IN  shorter \cup {q \o c : q \in shorter, c \in Chunks}

Prompts == PromptsOf(MaxChunks)

\* undefined, and a system prompt with four agentic keywords.
SystemPrompts == {<<>>, <<"Edit the file, compile, install and deploy.">>}

TokenCounts == {10, 100, 1000}

DefaultWeights ==
    [tokenCount |-> 8, codePresence |-> 15, reasoningMarkers |-> 18,
     technicalTerms |-> 10, creativeMarkers |-> 5, simpleIndicators |-> 12,
     multiStepPatterns |-> 12, questionComplexity |-> 5, imperativeVerbs |-> 3,
     constraintCount |-> 4, outputFormat |-> 3, referenceComplexity |-> 2,
     negationComplexity |-> 1, domainSpecificity |-> 2, agenticTask |-> 4]

DefaultConfig ==
    [tokenCountThresholds   |-> [simple |-> 50, complex |-> 500],
     codeKeywords           |-> <<"function", "import">>,
     reasoningKeywords      |-> <<"prove", "Hypothesis">>,
     technicalKeywords      |-> <<"optimize", "kubernetes">>,
     creativeKeywords       |-> <<"story">>,
     simpleKeywords         |-> <<"hello", "what is">>,
     imperativeVerbs        |-> <<"write", "build">>,
     constraintIndicators   |-> <<"at most">>,
     outputFormatKeywords   |-> <<"json">>,
     referenceKeywords      |-> <<"above">>,
     negationKeywords       |-> <<"don't", "never">>,
     domainSpecificKeywords |-> <<"quantum">>,
     agenticTaskKeywords    |-> <<"edit", "deploy", "install", "compile">>,
     dimensionWeights       |-> DefaultWeights,
     tierBoundaries         |-> [simpleMedium |-> 0, mediumComplex |-> 150,
                                 complexReasoning |-> 250],
     confidenceSteepness    |-> 12,
     confidenceThreshold    |-> 70]

\* A threshold no calibrated confidence falls below, a flatter sigmoid and
\* other boundaries.
LenientConfig ==
    [DefaultConfig EXCEPT !.confidenceThreshold = 50,
                          !.confidenceSteepness = 5,
                          !.tierBoundaries = [simpleMedium |-> -80, mediumComplex |-> 80,
                                              complexReasoning |-> 300]]

\* A threshold above every fixed confidence of the fast path, boundaries that
\* put the score of two reasoning keywords below simpleMedium, and weights that
\* leave dimensions out, among them agenticTask.
StrictConfig ==
    [DefaultConfig EXCEPT !.confidenceThreshold = 98,
                          !.tierBoundaries = [simpleMedium |-> 200, mediumComplex |-> 300,
                                              complexReasoning |-> 400],
                          !.dimensionWeights =
                              [tokenCount |-> 8, codePresence |-> 15,
                               reasoningMarkers |-> 18, simpleIndicators |-> 12]]

Configs == {DefaultConfig, LenientConfig, StrictConfig}

\* A configuration whose keyword lists let every count of the thresholds of
\* lines 394-487 occur: up to two code keywords, four technical ones (one of
\* them written in upper case), three negations and three constraints.
KeywordConfig ==
    [DefaultConfig EXCEPT !.codeKeywords = <<"def", "var">>,
                          !.technicalKeywords = <<"tcp", "dns", "ssh", "TLS">>,
                          !.negationKeywords = <<"not", "never", "none">>,
                          !.constraintIndicators = <<"at most", "at least", "within">>,
                          !.simpleKeywords = <<"hello">>]

\* The words a scored prompt picks from, in the order they are written.
KeywordWords ==
    << "def ", "var ", "tcp ", "dns ", "SSH tls ", "not ", "never none ",
       "at most ", "at least within ", "hello ", "install " >>

\* The words of the set picks of positions, from position i on.
RECURSIVE WordsFrom(_, _)
WordsFrom(i, picks) ==
    IF i > Len(KeywordWords) THEN ""
    ELSE (IF i \in picks THEN KeywordWords[i] ELSE "") \o WordsFrom(i + 1, picks)

\* Prompts of more than twenty characters that no quick pattern matches.
KeywordPrompts ==
    {"kindly look at these: " \o WordsFrom(1, picks) : picks \in SUBSET (1..Len(KeywordWords))}

\* System prompts with no, one, two and three agentic keywords.
KeywordSystemPrompts ==
    {<<>>, <<"Edit.">>, <<"Edit and deploy.">>, <<"EDIT, deploy, compile.">>}

(***************************************************************************)
(* The credential loader (src/src/auth.ts, lines 1-176)                    *)
(*                                                                         *)
(* An optional value (string | undefined, a Map or null, a file that may   *)
(* be missing) is the empty sequence when absent and a one-element         *)
(* sequence otherwise.  A Map is a function on the keys it holds.          *)
(***************************************************************************)

\* JavaScript truthiness of string | undefined: neither undefined nor "".
Truthy(v) == v # <<>> /\ v[1] # ""

Providers == {"anthropic", "openai", "google"}

ProviderAuth(provider, profileName, token, apiKey) ==
    [provider |-> provider, profileName |-> profileName, token |-> token,
     apiKey |-> apiKey]

EmptyMap == [p \in {} |-> <<>>]

MapHas(map, key) == key \in DOMAIN map

MapSet(map, key, value) == [k \in DOMAIN map \cup {key} |-> IF k = key THEN value ELSE map[k]]

MapGet(map, key) == IF key \in DOMAIN map THEN <<map[key]>> ELSE <<>>

\* env.keychain is the output of the security command, absent when execSync
\* throws.
getAnthropicTokenFromKeychain(env) ==
    IF env.keychain = <<>> THEN <<>>
    ELSE LET trimmed == trim(env.keychain[1])
         IN  IF trimmed # "" /\ StartsWith(trimmed, "sk-ant-") THEN <<trimmed>> ELSE <<>>

possiblePaths == <<"~/.claude/credentials.json", "~/.config/claude/credentials.json">>

\* The token of one credentials file.  A file is absent (existsSync false) or
\* has a content; the content is absent when readFileSync or JSON.parse throws
\* and else the parsed object with its fields token and claudeAiOauth.
CredentialsFileToken(file) ==
    IF file = <<>> THEN <<>>
    ELSE IF file[1] = <<>> THEN <<>>
    ELSE LET data == file[1][1]
         IN  IF Truthy(data.token) THEN data.token
             ELSE IF data.claudeAiOauth # <<>> /\ Truthy(data.claudeAiOauth[1].accessToken)
                  THEN data.claudeAiOauth[1].accessToken
             ELSE <<>>

RECURSIVE TokenFromFiles(_, _)
TokenFromFiles(env, i) ==
    IF i > Len(possiblePaths) THEN <<>>
    ELSE LET token == CredentialsFileToken(env.files[possiblePaths[i]])
         IN  IF token # <<>> THEN token ELSE TokenFromFiles(env, i + 1)

\* A variant that reads ANTHROPIC_AUTH_TOKEN before ANTHROPIC_API_KEY.
getAnthropicTokenFromEnvOrFiles_AuthTokenFirst(env) ==
    IF Truthy(env.ANTHROPIC_AUTH_TOKEN) THEN env.ANTHROPIC_AUTH_TOKEN
    ELSE IF Truthy(env.ANTHROPIC_API_KEY) THEN env.ANTHROPIC_API_KEY
    ELSE IF Truthy(env.CLAUDE_CODE_TOKEN) THEN env.CLAUDE_CODE_TOKEN
    ELSE TokenFromFiles(env, 1)

getAnthropicTokenFromEnvOrFiles(env) ==
    IF Truthy(env.ANTHROPIC_API_KEY) THEN env.ANTHROPIC_API_KEY
    ELSE IF Truthy(env.ANTHROPIC_AUTH_TOKEN) THEN env.ANTHROPIC_AUTH_TOKEN
    ELSE IF Truthy(env.CLAUDE_CODE_TOKEN) THEN env.CLAUDE_CODE_TOKEN
    ELSE TokenFromFiles(env, 1)

\* The loop over config.skills.entries from entry i on.  An entry is a skill
\* name with its value: absent for null (reading apiKey of it throws, which
\* ends the loop with the map as it is) or the object with its apiKey.
RECURSIVE OpenAIFromSkills(_, _, _)
OpenAIFromSkills(entries, i, map) ==
    IF i > Len(entries) THEN map
    ELSE LET skillName   == entries[i].skillName
             skillConfig == entries[i].skillConfig
         IN  IF ~includes(skillName, "openai")
             THEN OpenAIFromSkills(entries, i + 1, map)
             ELSE IF skillConfig = <<>> THEN map
             ELSE IF Truthy(skillConfig[1].apiKey) /\ ~MapHas(map, "openai")
             THEN OpenAIFromSkills(entries, i + 1,
                      MapSet(map, "openai",
                             ProviderAuth("openai", skillName, <<>>, skillConfig[1].apiKey)))
             ELSE OpenAIFromSkills(entries, i + 1, map)

\* env.clawdbot is ~/.clawdbot/clawdbot.json: absent, or a content that is
\* absent when reading or parsing throws and else the parsed config, whose
\* skills.entries is absent or the sequence of its entries.
loadAuthProfiles(env) ==
    LET keychainToken == getAnthropicTokenFromKeychain(env)
        map1 == IF Truthy(keychainToken)
                THEN MapSet(EmptyMap, "anthropic",
                            ProviderAuth("anthropic", "keychain", keychainToken, <<>>))
                ELSE EmptyMap
        envToken == getAnthropicTokenFromEnvOrFiles(env)
        map2 == IF ~MapHas(map1, "anthropic") /\ Truthy(envToken)
                THEN MapSet(map1, "anthropic",
                            ProviderAuth("anthropic", "env", envToken, <<>>))
                ELSE map1
        map3 == IF env.clawdbot = <<>> THEN map2
                ELSE IF env.clawdbot[1] = <<>> THEN map2
                ELSE IF env.clawdbot[1][1].entries = <<>> THEN map2
                ELSE OpenAIFromSkills(env.clawdbot[1][1].entries[1], 1, map2)
    IN  IF ~MapHas(map3, "openai") /\ Truthy(env.OPENAI_API_KEY)
        THEN MapSet(map3, "openai", ProviderAuth("openai", "env", <<>>, env.OPENAI_API_KEY))
        ELSE map3

\* A variant that also loads when the cached map is empty.
getAuth_LoadsOnEmptyMap(cache, env, provider) ==
    LET loaded == cache = <<>> \/ cache[1] = EmptyMap
        map    == IF loaded THEN loadAuthProfiles(env) ELSE cache[1]
    IN  [authCache |-> <<map>>, ret |-> MapGet(map, provider), loaded |-> loaded]

\* getAuth on the cache value cache: the cache after the call, the value
\* returned and whether loadAuthProfiles ran.
getAuth(cache, env, provider) ==
    LET loaded == cache = <<>>
        map    == IF loaded THEN loadAuthProfiles(env) ELSE cache[1]
    IN  [authCache |-> <<map>>, ret |-> MapGet(map, provider), loaded |-> loaded]

\* getAuthHeader, likewise.
getAuthHeader(cache, env, provider) ==
    LET got  == getAuth(cache, env, provider)
        auth == got.ret
    IN  [got EXCEPT !.ret = IF auth = <<>> THEN <<>>
                            ELSE IF Truthy(auth[1].token) THEN auth[1].token
                            ELSE IF Truthy(auth[1].apiKey) THEN auth[1].apiKey
                            ELSE <<>>]

\* A credentials file or config file that does not exist, one whose reading
\* or parsing throws, and one that parses to data.
Missing == <<>>
Unparseable == << <<>> >>
Parsed(data) == << <<data>> >>

CredentialsData(token, claudeAiOauth) == [token |-> token, claudeAiOauth |-> claudeAiOauth]

\* The keychain, the environment variables and the files of a machine with no
\* credential at all.
NoEnvironment ==
    [keychain |-> <<>>,
     ANTHROPIC_API_KEY |-> <<>>, ANTHROPIC_AUTH_TOKEN |-> <<>>,
     CLAUDE_CODE_TOKEN |-> <<>>, CLAUDE_CODE_OAUTH_TOKEN |-> <<>>,
     OPENAI_API_KEY |-> <<>>,
     files |-> [path \in {possiblePaths[1], possiblePaths[2]} |-> Missing],
     clawdbot |-> Missing]

KeychainStates == {<<>>, <<"">>, <<"sk-ant-oat01-keychain\n">>, <<"hunter2">>}

FirstFileStates ==
    {Missing, Unparseable,
     Parsed(CredentialsData(<<>>, <<>>)),
     Parsed(CredentialsData(<<"file1-token">>, <<[accessToken |-> <<"file1-oauth">>]>>)),
     Parsed(CredentialsData(<<>>, <<[accessToken |-> <<"file1-oauth">>]>>))}

SecondFileStates ==
    {Missing, Unparseable, Parsed(CredentialsData(<<"file2-token">>, <<>>))}

ClawdbotStates ==
    {Missing, Unparseable,
     Parsed([entries |-> <<>>]),
     Parsed([entries |-> << <<[skillName |-> "github",
                               skillConfig |-> <<[apiKey |-> <<"gh-key">>]>>],
                              [skillName |-> "openai-whisper-api",
                               skillConfig |-> <<[apiKey |-> <<>>]>>],
                              [skillName |-> "openai-image-gen",
                               skillConfig |-> <<[apiKey |-> <<"sk-openai-skill">>]>>]>> >>]),
     Parsed([entries |-> << <<[skillName |-> "openai-whisper-api", skillConfig |-> <<>>],
                              [skillName |-> "openai-image-gen",
                               skillConfig |-> <<[apiKey |-> <<"sk-openai-skill">>]>>]>> >>])}

\* Every combination of the sources.
Environments ==
    {[keychain |-> keychain,
      ANTHROPIC_API_KEY |-> apiKey, ANTHROPIC_AUTH_TOKEN |-> authToken,
      CLAUDE_CODE_TOKEN |-> codeToken, CLAUDE_CODE_OAUTH_TOKEN |-> oauthToken,
      OPENAI_API_KEY |-> openai,
      files |-> (possiblePaths[1] :> file1) @@ (possiblePaths[2] :> file2),
      clawdbot |-> clawdbot] :
        keychain \in KeychainStates,
        apiKey \in {<<>>, <<"">>, <<"sk-ant-api03-env">>},
        authToken \in {<<>>, <<"auth-token">>},
        codeToken \in {<<>>, <<"code-token">>},
        oauthToken \in {<<>>, <<"sk-ant-oat01-env">>},
        openai \in {<<>>, <<"sk-openai-env">>},
        file1 \in FirstFileStates,
        file2 \in SecondFileStates,
        clawdbot \in ClawdbotStates}

\* The environments between which a running process is moved: nothing
\* available, the keychain, the environment variables, a credentials file.
AuthEnvironments ==
    {NoEnvironment,
     [NoEnvironment EXCEPT !.keychain = <<"sk-ant-oat01-keychain\n">>],
     [NoEnvironment EXCEPT !.ANTHROPIC_API_KEY = <<"sk-ant-api03-env">>,
                           !.OPENAI_API_KEY = <<"sk-openai-env">>],
     [NoEnvironment EXCEPT !.files[possiblePaths[2]] =
                               Parsed(CredentialsData(<<"file2-token">>, <<>>))]}

(***************************************************************************)
(* The state machine: one call of classifyByRules                          *)
(***************************************************************************)

\* The value of result before the call has returned.
NoResult ==
    [score |-> 0, tier |-> Null, confidence |-> 0, signals |-> <<>>, agenticScore |-> 0]

\* No call of the credential loader has been made.
NoCall == [op |-> "none", provider |-> "", ret |-> <<>>, loaded |-> FALSE]

AuthAtRest ==
    /\ environment = NoEnvironment
    /\ authCache = <<>>
    /\ call = NoCall
    /\ getAuthsSinceReload = 0
    /\ loadedMap = <<>>

\* No request is being routed.
NoDecision == [tier |-> Null, method |-> "", signals |-> <<>>]

RouterAtRest ==
    /\ llmResult = <<>>
    /\ decision = NoDecision

\* No request was received.
ProxyAtRest == requests = <<>>

\* The LLM classifier was never asked.
CacheAtRest ==
    /\ classificationCache = {}
    /\ now = 0
    /\ mutex = 0
    /\ classifications = <<>>

\* The plugin was not activated.
NotActivated ==
    [pc |-> "idle", wallet |-> <<>>, started |-> <<>>, outcome |-> "none",
     activeProxy |-> <<>>, callbacks |-> 0, threw |-> FALSE]

PluginAtRest ==
    /\ pluginConfig = <<>>
    /\ plugin = NotActivated
    /\ log = <<>>

PipelineAtRest == RouterAtRest /\ ProxyAtRest /\ CacheAtRest /\ PluginAtRest

Init ==
    /\ prompt \in Prompts
    /\ systemPrompt \in SystemPrompts
    /\ estimatedTokens \in TokenCounts
    /\ config \in Configs
    /\ result = NoResult
    /\ pc = "call"
    /\ AuthAtRest
    /\ PipelineAtRest

\* The call runs to its return; pc records the return statement reached.
Classify ==
    /\ pc = "call"
    /\ \E trace \in {classifyTrace(prompt, systemPrompt, estimatedTokens, config)} :
         result' = trace.result /\ pc' = trace.returnedAt
    /\ UNCHANGED <<prompt, systemPrompt, estimatedTokens, config>>
    /\ UNCHANGED <<authVars, pipelineVars>>

Next == Classify

Spec == Init /\ [][Next]_vars

\* The same call on the keyword-rich inputs.
ScoreInit ==
    /\ prompt \in KeywordPrompts
    /\ systemPrompt \in KeywordSystemPrompts
    /\ estimatedTokens = 100
    /\ config = KeywordConfig
    /\ result = NoResult
    /\ pc = "call"
    /\ AuthAtRest
    /\ PipelineAtRest

ScoreSpec == ScoreInit /\ [][Next]_vars

(***************************************************************************)
(* The state machine of the credential loader: calls of getAuth,           *)
(* getAuthHeader and reloadAuth on one process, whose environment changes  *)
(* between the calls                                                       *)
(***************************************************************************)

\* No call of classifyByRules is under way.
ClassifierAtRest ==
    /\ prompt = ""
    /\ systemPrompt = <<>>
    /\ estimatedTokens = 0
    /\ config = DefaultConfig
    /\ result = NoResult
    /\ pc = "idle"

AuthInit ==
    /\ ClassifierAtRest
    /\ PipelineAtRest
    /\ environment \in AuthEnvironments
    /\ authCache = <<>>
    /\ call = NoCall
    /\ getAuthsSinceReload = 0
    /\ loadedMap = <<>>

\* One call of getAuth or getAuthHeader with its outcome got.
Called(op, provider, got) ==
    /\ authCache' = got.authCache
    /\ call' = [op |-> op, provider |-> provider, ret |-> got.ret, loaded |-> got.loaded]
    /\ getAuthsSinceReload' = Min(getAuthsSinceReload + 1, 2)
    /\ loadedMap' = IF got.loaded THEN got.authCache ELSE loadedMap
    /\ UNCHANGED environment
    /\ UNCHANGED <<classifierVars, pipelineVars>>

GetAuth(provider) ==
    \E got \in {getAuth(authCache, environment, provider)} :
        Called("getAuth", provider, got)

GetAuthHeader(provider) ==
    \E got \in {getAuthHeader(authCache, environment, provider)} :
        Called("getAuthHeader", provider, got)

ReloadAuth ==
    /\ authCache' = <<>>
    /\ call' = [op |-> "reloadAuth", provider |-> "", ret |-> <<>>, loaded |-> FALSE]
    /\ getAuthsSinceReload' = 0
    /\ UNCHANGED <<environment, loadedMap>>
    /\ UNCHANGED <<classifierVars, pipelineVars>>

\* The user logs in or out, sets a variable, writes a file.
ChangeEnvironment ==
    /\ environment' \in AuthEnvironments \ {environment}
    /\ UNCHANGED <<authCache, call, getAuthsSinceReload, loadedMap>>
    /\ UNCHANGED <<classifierVars, pipelineVars>>

AuthNext ==
    \/ \E provider \in Providers : GetAuth(provider)
    \/ \E provider \in Providers : GetAuthHeader(provider)
    \/ ReloadAuth
    \/ ChangeEnvironment

AuthSpec == AuthInit /\ [][AuthNext]_vars

(***************************************************************************)
(* The first load of a process, for every combination of the credential    *)
(* sources                                                                 *)
(***************************************************************************)

LoadInit ==
    /\ ClassifierAtRest
    /\ PipelineAtRest
    /\ environment \in Environments
    /\ authCache = <<>>
    /\ call = NoCall
    /\ getAuthsSinceReload = 0
    /\ loadedMap = <<>>

LoadNext ==
    \/ \E provider \in Providers : GetAuth(provider)
    \/ \E provider \in Providers : GetAuthHeader(provider)

LoadSpec == LoadInit /\ [][LoadNext]_vars

(***************************************************************************)
(* The router: route(request, config), steps 3 to 5.  The rule classifier  *)
(* is classifyByRules above; the LLM classifier and the post-overrides are *)
(* taken from the router's contract.                                       *)
(***************************************************************************)

\* The order of the tiers, SIMPLE < MEDIUM < COMPLEX < REASONING.
TierRank(tier) ==
    CASE tier = "SIMPLE" -> 0 [] tier = "MEDIUM" -> 1
      [] tier = "COMPLEX" -> 2 [] tier = "REASONING" -> 3

MaxTier(a, b) == IF TierRank(a) >= TierRank(b) THEN a ELSE b

\* The number of estimated tokens above which the context counts as large.
LargeContextTokens == 100000

\* What the LLM classifier can answer: a tier read from the model's reply or
\* taken from the cache, or MEDIUM after a failure or an unparseable reply.
LLMOutcomes ==
    {[tier |-> t, confidence |-> 75] : t \in Tiers}
        \cup {[tier |-> "MEDIUM", confidence |-> 60]}

\* Steps 3 and 4: the tier of the rule classifier when it has one, else the
\* tier of the LLM classifier.
Adopted(trace, llm) ==
    IF trace.result.tier # Null
    THEN [tier |-> trace.result.tier,
          method |-> IF trace.returnedAt = "fastpath" THEN "fastpath" ELSE "rules",
          signals |-> trace.result.signals]
    ELSE [tier |-> llm[1].tier, method |-> "llm", signals |-> trace.result.signals]

\* The large-context override that sets the tier to COMPLEX whatever it was.
LargeContextOverride_Force(d, tokens) ==
    IF tokens > LargeContextTokens
    THEN [d EXCEPT !.tier = "COMPLEX",
                   !.signals = Append(@, "forced-complex-large-context")]
    ELSE d

\* Step 5, first override.
LargeContextOverride(d, tokens) ==
    IF tokens > LargeContextTokens
    THEN [d EXCEPT !.tier = MaxTier(@, "COMPLEX"),
                   !.signals = Append(@, "forced-complex-large-context")]
    ELSE d

\* Step 5, second override.
StructuredOutputOverride(d, sys) ==
    IF sys # <<>> /\ (\/ includes(toLowerCase(sys[1]), "json")
                      \/ includes(toLowerCase(sys[1]), "structured"))
    THEN [d EXCEPT !.tier = MaxTier(@, "MEDIUM"),
                   !.signals = Append(@, "forced-medium-structured")]
    ELSE d

route(trace, llm, sys, tokens) ==
    StructuredOutputOverride(LargeContextOverride(Adopted(trace, llm), tokens), sys)

\* One prompt for each tier of the fast path, one scored by the dimensions
\* and one with two reasoning keywords.
RoutePrompts ==
    {"hello", "prove", "optimize", "Write a function", "functionfunctionfunction",
     "HypothesisHypothesisprove"}

RouteSystemPrompts ==
    {<<>>, <<"You are a helpful assistant.">>, <<"Reply in JSON.">>,
     <<"Use Structured output.">>}

RouteTokenCounts == {100, LargeContextTokens, LargeContextTokens + 1}

RouteInit ==
    /\ prompt \in RoutePrompts
    /\ systemPrompt \in RouteSystemPrompts
    /\ estimatedTokens \in RouteTokenCounts
    /\ config \in {DefaultConfig, StrictConfig}
    /\ result = NoResult
    /\ pc = "call"
    /\ AuthAtRest
    /\ PipelineAtRest

\* route() runs to its RoutingDecision; the LLM classifier is asked only when
\* the rule classifier returned no tier.
Route ==
    /\ pc = "call"
    /\ \E trace \in {classifyTrace(prompt, systemPrompt, estimatedTokens, config)} :
         \E llm \in (IF trace.result.tier = Null
                     THEN {<<outcome>> : outcome \in LLMOutcomes} ELSE {<<>>}) :
             /\ result' = trace.result
             /\ llmResult' = llm
             /\ decision' = route(trace, llm, systemPrompt, estimatedTokens)
    /\ pc' = "routed"
    /\ UNCHANGED <<prompt, systemPrompt, estimatedTokens, config>>
    /\ UNCHANGED <<authVars, proxyVars, cacheVars, pluginVars>>

RouteNext == Route

RouteSpec == RouteInit /\ [][RouteNext]_vars

(***************************************************************************)
(* The proxy pipeline: requests handled in parallel, each one routed,      *)
(* forwarded upstream and answered, with the traversal of the fallback     *)
(* chain of its tier.  Taken from the contract of the proxy pipeline.      *)
(***************************************************************************)

\* The number of requests in flight.
NumRequests == 2

RequestIds == 1..NumRequests

\* The most fallbacks tried after the primary model (N = 2).
MaxFallbacks == 2

\* Primary model and ordered fallback chain of each tier.  The chain of
\* COMPLEX is the one of the catalog; the others are shortened or extended so
\* that chains of 0, 1, 2 and 3 models occur.
ModelCatalog ==
    [t \in Tiers |->
        CASE t = "SIMPLE" ->
               [primary |-> "google/gemini-2.5-flash", fallbackChain |-> <<>>]
          [] t = "MEDIUM" ->
               [primary |-> "deepseek/deepseek-chat",
                fallbackChain |-> <<"google/gemini-2.5-flash">>]
          [] t = "COMPLEX" ->
               [primary |-> "anthropic/claude-sonnet-4",
                fallbackChain |-> <<"openai/gpt-4o", "google/gemini-2.5-pro">>]
          [] t = "REASONING" ->
               [primary |-> "openai/o3",
                fallbackChain |-> <<"google/gemini-2.5-pro", "anthropic/claude-sonnet-4",
                                    "openai/gpt-4o">>]]

\* What an upstream call ends with: a 2xx response, an HTTP error, or 0 for a
\* network error or a timeout.
UpstreamStatuses == {200, 503, 0}

\* The status of a call that has not ended, or of a request never forwarded.
Pending == -1

\* A request as received: not routed, nothing tried.
ReceivedRequest ==
    [state |-> "RECEIVED", tier |-> Null, tried |-> <<>>, status |-> Pending,
     cancelled |-> FALSE]

\* The models of a tier in the order they are tried.
ModelsOf(tier) == <<ModelCatalog[tier].primary>> \o ModelCatalog[tier].fallbackChain

\* The traversal that follows the chain to its end.
CanFallBack_WholeChain(tried, tier) == Len(tried) < Len(ModelsOf(tier))

\* After a failed call: is there a next model, and were fewer than
\* MaxFallbacks fallbacks tried?
CanFallBack(tried, tier) ==
    /\ Len(tried) < Len(ModelsOf(tier))
    /\ Len(tried) - 1 < MaxFallbacks

ProxyInit ==
    /\ ClassifierAtRest
    /\ AuthAtRest
    /\ RouterAtRest
    /\ CacheAtRest
    /\ PluginAtRest
    /\ requests = [r \in RequestIds |-> ReceivedRequest]

\* RECEIVED -> CLASSIFIED: the router gives the request a tier.
RouteRequest(r) ==
    /\ requests[r].state = "RECEIVED"
    /\ \E tier \in Tiers :
         requests' = [requests EXCEPT ![r].state = "CLASSIFIED", ![r].tier = tier]
    /\ UNCHANGED <<classifierVars, authVars, routerVars, cacheVars, pluginVars>>

\* CLASSIFIED -> FORWARDING: the body, with the primary model written into
\* it, is sent upstream.
Forward(r) ==
    /\ requests[r].state = "CLASSIFIED"
    /\ requests' = [requests EXCEPT ![r].state = "FORWARDING",
                                    ![r].tried = <<ModelCatalog[requests[r].tier].primary>>]
    /\ UNCHANGED <<classifierVars, authVars, routerVars, cacheVars, pluginVars>>

\* The upstream call under way ends.  A 2xx response is streamed; anything
\* else sends a fresh body to the next model of the chain, or fails the
\* request with the last upstream error.
UpstreamResponds(r) ==
    /\ requests[r].state = "FORWARDING"
    /\ \E status \in UpstreamStatuses :
         requests' =
           IF status = 200
           THEN [requests EXCEPT ![r].state = "STREAMING", ![r].status = status]
           ELSE IF CanFallBack(requests[r].tried, requests[r].tier)
           THEN [requests EXCEPT
                   ![r].status = status,
                   ![r].tried = Append(@, ModelsOf(requests[r].tier)[Len(@) + 1])]
           ELSE [requests EXCEPT ![r].state = "FAILED", ![r].status = status]
    /\ UNCHANGED <<classifierVars, authVars, routerVars, cacheVars, pluginVars>>

\* STREAMING -> COMPLETED: the last chunk was written to the client.
StreamEnds(r) ==
    /\ requests[r].state = "STREAMING"
    /\ requests' = [requests EXCEPT ![r].state = "COMPLETED"]
    /\ UNCHANGED <<classifierVars, authVars, routerVars, cacheVars, pluginVars>>

\* The client closes the connection: the request fails from whatever state
\* it was in, and the upstream call is cancelled.
ClientDisconnects(r) ==
    /\ requests[r].state \notin {"COMPLETED", "FAILED"}
    /\ requests' = [requests EXCEPT ![r].state = "FAILED", ![r].cancelled = TRUE]
    /\ UNCHANGED <<classifierVars, authVars, routerVars, cacheVars, pluginVars>>

ProxyNext ==
    \E r \in RequestIds :
        \/ RouteRequest(r)
        \/ Forward(r)
        \/ UpstreamResponds(r)
        \/ StreamEnds(r)
        \/ ClientDisconnects(r)

\* Every upstream call ends, by a response, an error or a timeout, and every
\* stream ends or is cut.
ProxySpec == ProxyInit /\ [][ProxyNext]_vars /\ WF_vars(ProxyNext)

(***************************************************************************)
(* The classification cache of the LLM classifier: lookups, inserts under  *)
(* a mutex and reloads, for requests handled in parallel.  Taken from the  *)
(* contract of the LLM classifier.                                         *)
(***************************************************************************)

\* The number of entries the cache holds at most.
CacheCapacity == 1000

\* The time to live of an entry, in seconds (one hour).
CacheTTL == 3600

\* The number of times the clock is moved on.
MaxTicks == 1

\* The cache after n classifications of distinct prompts, one each second.
FilledCache(n) ==
    {[fingerprint |-> i, tier |-> "MEDIUM", insertedAt |-> i] : i \in 1..n}

\* The fingerprints of the prompts asked about: the oldest entry of a filled
\* cache and two prompts never seen.
Fingerprints == {1, CacheCapacity + 1, CacheCapacity + 2}

\* The tier the upstream model answers with.  Which tier is stored plays no
\* part in the discipline of the cache; one stands for all.
AnsweredTiers == {"REASONING"}

NotAsked == [pc |-> "start", fingerprint |-> 0, tier |-> Null]

EntriesOf(entries, fingerprint) == {e \in entries : e.fingerprint = fingerprint}

\* An entry is stale once it is older than the time to live.
Stale(entry, time) == time - entry.insertedAt > CacheTTL

\* The entries with the oldest insertedAt.
Oldest(entries) == {e \in entries : \A o \in entries : e.insertedAt <= o.insertedAt}

CacheInit ==
    /\ ClassifierAtRest
    /\ AuthAtRest
    /\ RouterAtRest
    /\ ProxyAtRest
    /\ PluginAtRest
    /\ \E n \in {0, CacheCapacity - 1, CacheCapacity} :
         classificationCache = FilledCache(n) /\ now = n
    /\ mutex = 0
    /\ classifications = [r \in RequestIds |-> NotAsked]

\* The lookup before any network call.  A fresh entry is a hit; a stale one
\* is evicted, in the exclusive section, and counts as a miss.
Lookup(r) ==
    /\ classifications[r].pc = "start"
    /\ \E fingerprint \in Fingerprints :
         \E found \in {EntriesOf(classificationCache, fingerprint)} :
           IF found # {} /\ \A e \in found : ~Stale(e, now)
           THEN /\ classifications' =
                     [classifications EXCEPT
                        ![r] = [pc |-> "done", fingerprint |-> fingerprint,
                                tier |-> (CHOOSE e \in found : TRUE).tier]]
                /\ UNCHANGED <<classificationCache, mutex>>
           ELSE /\ found # {} => mutex = 0
                /\ classificationCache' = classificationCache \ found
                /\ classifications' =
                     [classifications EXCEPT
                        ![r] = [pc |-> "awaiting", fingerprint |-> fingerprint,
                                tier |-> Null]]
                /\ UNCHANGED mutex
    /\ UNCHANGED <<classifierVars, authVars, routerVars, proxyVars, pluginVars, now>>

\* The upstream model answers.
ClassifierAnswers(r) ==
    /\ classifications[r].pc = "awaiting"
    /\ \E tier \in AnsweredTiers :
         classifications' = [classifications EXCEPT ![r].pc = "insert", ![r].tier = tier]
    /\ UNCHANGED <<classifierVars, authVars, routerVars, proxyVars, pluginVars, classificationCache, now,
                   mutex>>

\* The insert that does not wait for the exclusive section to be free.
BeginInsert_NoMutex(r) ==
    /\ classifications[r].pc = "insert"
    /\ mutex' = r
    /\ IF Cardinality(classificationCache) >= CacheCapacity
       THEN \E e \in Oldest(classificationCache) :
                classificationCache' = classificationCache \ {e}
       ELSE UNCHANGED classificationCache
    /\ classifications' = [classifications EXCEPT ![r].pc = "put"]
    /\ UNCHANGED <<classifierVars, authVars, routerVars, proxyVars, pluginVars, now>>

\* The insert enters the exclusive section and, when the size has reached
\* the capacity, drops the entry with the oldest insertedAt.
BeginInsert(r) ==
    /\ classifications[r].pc = "insert"
    /\ mutex = 0
    /\ mutex' = r
    /\ IF Cardinality(classificationCache) >= CacheCapacity
       THEN \E e \in Oldest(classificationCache) :
                classificationCache' = classificationCache \ {e}
       ELSE UNCHANGED classificationCache
    /\ classifications' = [classifications EXCEPT ![r].pc = "put"]
    /\ UNCHANGED <<classifierVars, authVars, routerVars, proxyVars, pluginVars, now>>

\* Store the entry under its fingerprint and leave the exclusive section.
Put(r) ==
    /\ classifications[r].pc = "put"
    /\ classificationCache' =
           (classificationCache \ EntriesOf(classificationCache, classifications[r].fingerprint))
                  \cup {[fingerprint |-> classifications[r].fingerprint,
                         tier |-> classifications[r].tier, insertedAt |-> now]}
    /\ mutex' = 0
    /\ classifications' = [classifications EXCEPT ![r].pc = "done"]
    /\ UNCHANGED <<classifierVars, authVars, routerVars, proxyVars, pluginVars, now>>

\* POST /reload clears the classification cache; the credential cache is
\* cleared already.
ReloadCaches ==
    /\ mutex = 0
    /\ classificationCache # {}
    /\ classificationCache' = {}
    /\ authCache' = <<>>
    /\ UNCHANGED <<classifierVars, routerVars, proxyVars, pluginVars, now, mutex, classifications>>
    /\ UNCHANGED <<environment, call, getAuthsSinceReload, loadedMap>>

\* The time to live passes.
Tick ==
    /\ now < CacheCapacity + MaxTicks * CacheTTL
    /\ now' = now + CacheTTL
    /\ UNCHANGED <<classifierVars, authVars, routerVars, proxyVars, pluginVars, classificationCache, mutex,
                   classifications>>

CacheNext ==
    \/ \E r \in RequestIds :
          \/ Lookup(r)
          \/ ClassifierAnswers(r)
          \/ BeginInsert(r)
          \/ Put(r)
    \/ ReloadCaches
    \/ Tick

CacheSpec == CacheInit /\ [][CacheNext]_vars

(***************************************************************************)
(* The plugin entry (src/unnamed/part_000): activate, an async function.   *)
(* It runs to its first await, and each continuation runs to the next      *)
(* await or to the end.  resolveOrGenerateWalletKey and startProxy are     *)
(* called, not defined, here: each either resolves or rejects.             *)
(*                                                                         *)
(* decision.savings is in thousandths, costEstimate and baselineCost in    *)
(* ten-thousandths of a dollar, confidence in hundredths, so that toFixed  *)
(* has nothing to round.                                                   *)
(***************************************************************************)

\* The number of times the proxy calls back.
MaxCallbacks == 2

\* The decimal digits of n, padded with zeros on the left to width digits.
RECURSIVE PadZeros(_, _)
PadZeros(n, width) ==
    IF Len(ToString(n)) >= width THEN ToString(n)
    ELSE "0" \o PadZeros(n, width - 1)

RECURSIVE PowerOfTen(_)
PowerOfTen(digits) == IF digits = 0 THEN 1 ELSE 10 * PowerOfTen(digits - 1)

\* Number.prototype.toFixed(digits) of units / 10^digits, units >= 0.
toFixed(units, digits) ==
    ToString(units \div PowerOfTen(digits)) \o "."
        \o PadZeros(units % PowerOfTen(digits), digits)

\* One call of api.logger.info or api.logger.error.
LogLine(level, message) == [level |-> level, message |-> message]

\* What resolveOrGenerateWalletKey resolves with.
Wallets ==
    {[key |-> "0xkey-generated", address |-> "0xA11CE", source |-> "generated"],
     [key |-> "0xkey-saved", address |-> "0xB0B", source |-> "saved"],
     [key |-> "0xkey-env", address |-> "0xCAFE", source |-> "env"]}

\* api.pluginConfig: undefined, without routing, with routing overrides.
PluginConfigs ==
    {<<>>, <<[routing |-> <<>>]>>, <<[routing |-> <<[confidenceThreshold |-> 80]>>]>>}

\* What startProxy resolves with.
ProxyHandles == {[baseUrl |-> "http://127.0.0.1:18800", port |-> 18800]}

\* What is thrown: an Error, a string, a number.
Thrown ==
    {[kind |-> "Error", message |-> "listen EADDRINUSE", value |-> 0],
     [kind |-> "string", message |-> "", value |-> 0],
     [kind |-> "number", message |-> "", value |-> 42]}

\* err instanceof Error ? err.message : String(err); the string thrown is
\* "insufficient funds".
ErrorText(err) ==
    IF err.kind = "Error" THEN err.message
    ELSE IF err.kind = "string" THEN "insufficient funds"
    ELSE ToString(err.value)

\* The decisions the proxy reports.
RoutedDecisions ==
    {[model |-> "deepseek/deepseek-chat", tier |-> "MEDIUM", method |-> "rules",
      confidence |-> 85, costEstimate |-> 4, baselineCost |-> 95, savings |-> 958],
     [model |-> "openai/o3", tier |-> "REASONING", method |-> "llm",
      confidence |-> 75, costEstimate |-> 12500, baselineCost |-> 12500, savings |-> 0]}

\* Lines 49 to 56.
WalletLines(wallet) ==
    IF wallet.source = "generated"
    THEN << LogLine("info", "Generated new wallet: " \o wallet.address),
            LogLine("info", "Fund with USDC on Base to start using ClawRouter.") >>
    ELSE IF wallet.source = "saved"
    THEN << LogLine("info", "Using saved wallet: " \o wallet.address) >>
    ELSE << LogLine("info", "Using wallet from BLOCKRUN_WALLET_KEY: " \o wallet.address) >>

\* api.pluginConfig?.routing
RoutingOverrides(cfg) == IF cfg = <<>> THEN <<>> ELSE cfg[1].routing

\* Lines 72 to 80.
RoutedLine(d) ==
    LogLine("info",
            "[routing] " \o d.model \o " (" \o d.tier \o ", " \o d.method
              \o ", confidence=" \o toFixed(d.confidence, 2) \o ") "
              \o "cost=$" \o toFixed(d.costEstimate, 4)
              \o " baseline=$" \o toFixed(d.baselineCost, 4)
              \o " saved=" \o toFixed(d.savings, 1) \o "%")

PluginInit ==
    /\ ClassifierAtRest
    /\ AuthAtRest
    /\ RouterAtRest
    /\ ProxyAtRest
    /\ CacheAtRest
    /\ pluginConfig \in PluginConfigs
    /\ plugin = NotActivated
    /\ log = <<>>

\* The host calls activate, which calls resolveOrGenerateWalletKey and
\* awaits it.
Activate ==
    /\ plugin.pc = "idle"
    /\ plugin' = [plugin EXCEPT !.pc = "awaitWallet"]
    /\ UNCHANGED <<classifierVars, authVars, routerVars, proxyVars, cacheVars, pluginConfig, log>>

\* The wallet key is resolved: lines 46 to 81, up to the await of startProxy.
WalletResolved(wallet) ==
    /\ plugin.pc = "awaitWallet"
    /\ log' = log \o WalletLines(wallet)
    /\ plugin' = [plugin EXCEPT
                    !.pc = "awaitProxy",
                    !.wallet = <<wallet>>,
                    !.started = <<[walletKey |-> wallet.key,
                                   routingConfig |-> RoutingOverrides(pluginConfig)]>>]
    /\ UNCHANGED <<classifierVars, authVars, routerVars, proxyVars, cacheVars, pluginConfig>>

\* resolveOrGenerateWalletKey rejects, outside the try: activate rejects.
WalletRejected ==
    /\ plugin.pc = "awaitWallet"
    /\ plugin' = [plugin EXCEPT !.pc = "done", !.threw = TRUE]
    /\ UNCHANGED <<classifierVars, authVars, routerVars, proxyVars, cacheVars, pluginConfig, log>>

\* startProxy resolves: lines 83 and 84.  The dash of the message, outside
\* the alphabet, is written "-".
ProxyResolved(proxy) ==
    /\ plugin.pc = "awaitProxy"
    /\ plugin' = [plugin EXCEPT !.pc = "done", !.outcome = "resolved",
                                !.activeProxy = <<proxy>>]
    /\ log' = Append(log, LogLine("info", "BlockRun provider active - " \o proxy.baseUrl
                                            \o "/v1 (smart routing enabled)"))
    /\ UNCHANGED <<classifierVars, authVars, routerVars, proxyVars, cacheVars, pluginConfig>>

\* The catch that logs the error and throws it again.
ProxyRejected_Rethrows(err) ==
    /\ plugin.pc = "awaitProxy"
    /\ plugin' = [plugin EXCEPT !.pc = "done", !.outcome = "rejected", !.threw = TRUE]
    /\ log' = Append(log, LogLine("error", "Failed to start BlockRun proxy: " \o ErrorText(err)))
    /\ UNCHANGED <<classifierVars, authVars, routerVars, proxyVars, cacheVars, pluginConfig>>

\* startProxy rejects: the catch of lines 85 to 89.
ProxyRejected(err) ==
    /\ plugin.pc = "awaitProxy"
    /\ plugin' = [plugin EXCEPT !.pc = "done", !.outcome = "rejected"]
    /\ log' = Append(log, LogLine("error", "Failed to start BlockRun proxy: " \o ErrorText(err)))
    /\ UNCHANGED <<classifierVars, authVars, routerVars, proxyVars, cacheVars, pluginConfig>>

\* The proxy, once startProxy was called with the callbacks and as long as it
\* has not failed to start, calls one of them.
ProxyCallsBack(line) ==
    /\ plugin.started # <<>>
    /\ plugin.outcome # "rejected"
    /\ plugin.callbacks < MaxCallbacks
    /\ plugin' = [plugin EXCEPT !.callbacks = @ + 1]
    /\ log' = Append(log, line)
    /\ UNCHANGED <<classifierVars, authVars, routerVars, proxyVars, cacheVars, pluginConfig>>

\* Lines 66 to 68.
OnReady ==
    \E proxy \in ProxyHandles :
        ProxyCallsBack(LogLine("info", "BlockRun x402 proxy listening on port "
                                         \o ToString(proxy.port)))

\* Lines 69 to 71.
OnError ==
    \E err \in {e \in Thrown : e.kind = "Error"} :
        ProxyCallsBack(LogLine("error", "BlockRun proxy error: " \o err.message))

OnRouted == \E d \in RoutedDecisions : ProxyCallsBack(RoutedLine(d))

PluginNext ==
    \/ Activate
    \/ \E wallet \in Wallets : WalletResolved(wallet)
    \/ WalletRejected
    \/ \E proxy \in ProxyHandles : ProxyResolved(proxy)
    \/ \E err \in Thrown : ProxyRejected(err)
    \/ OnReady
    \/ OnError
    \/ OnRouted

PluginSpec == PluginInit /\ [][PluginNext]_vars

(***************************************************************************)
(* Properties                                                              *)
(***************************************************************************)

\* The call has returned.
Returned == pc # "call"

\* The user text as the fast path sees it: lower-cased, then trimmed.
TrimmedUserText == trim(toLowerCase(prompt))

\* The distinct keywords of config.reasoningKeywords that the user text contains.
ReasoningKeywordsFound ==
    {toLowerCase(config.reasoningKeywords[i]) : i \in
       {j \in 1..Len(config.reasoningKeywords) :
          includes(toLowerCase(prompt), toLowerCase(config.reasoningKeywords[j]))}}

\* The tier boundaries increase and the sigmoid rises.
WellFormedConfig ==
    /\ config.tierBoundaries.simpleMedium < config.tierBoundaries.mediumComplex
    /\ config.tierBoundaries.mediumComplex < config.tierBoundaries.complexReasoning
    /\ config.confidenceSteepness > 0

\* C1: a prompt of at most 20 characters after trimming (the empty prompt and
\* prompts with line breaks included) is classified SIMPLE with confidence 0.95.
C1_ShortPromptIsSimple ==
    (Returned /\ Len(trim(prompt)) <= 20)
        => (result.tier = "SIMPLE" /\ result.confidence = 95)

\* C2: the empty prompt returns through the fast path: score 0, the single
\* signal "quick-match: SIMPLE", tier SIMPLE with confidence 0.95, and the
\* weighted scoring is not reached.
C2_EmptyPromptFastPath ==
    (Returned /\ prompt = "")
        => /\ pc = "fastpath"
           /\ result = [score |-> 0, tier |-> "SIMPLE", confidence |-> 95,
                        signals |-> <<"quick-match: SIMPLE">>, agenticScore |-> 0]

\* C3 as stated: a user text with at least two distinct reasoning keywords is
\* classified REASONING with confidence at least 0.85, whichever fast-path
\* patterns it also matches.
C3_TwoReasoningKeywordsIsReasoning ==
    (Returned /\ Cardinality(ReasoningKeywordsFound) >= 2)
        => (result.tier = "REASONING" /\ result.confidence >= 85)

\* C3 as amended: a user text with at least two distinct reasoning keywords
\* that the fast path does not return as SIMPLE, COMPLEX or MEDIUM is
\* classified REASONING with confidence at least 0.85.
C3_TwoReasoningKeywordsPastFastPath ==
    (/\ Returned
     /\ ~(pc = "fastpath" /\ result.tier \in {"SIMPLE", "COMPLEX", "MEDIUM"})
     /\ Cardinality(ReasoningKeywordsFound) >= 2)
        => (result.tier = "REASONING" /\ result.confidence >= 85)

\* C3 witness: the override returned REASONING for two reasoning keywords with
\* the calibrated confidence lifted to 0.85.
C3_Witness ==
    /\ pc = "override"
    /\ Cardinality(ReasoningKeywordsFound) >= 2
    /\ result.tier = "REASONING"
    /\ result.confidence = 85

\* C4 as stated: whenever the returned tier is not null, the returned
\* confidence is at least config.confidenceThreshold, for every config.
C4_ConfidenceMeetsThreshold ==
    (Returned /\ result.tier # Null)
        => result.confidence >= config.confidenceThreshold

\* C4 as amended: a tier returned by the boundary mapping has a confidence of
\* at least config.confidenceThreshold; the fast path and the reasoning
\* override return their confidence (0.95, 0.90, 0.85, 0.80; at least 0.85)
\* without reading the threshold, so theirs is at least the threshold for
\* every config whose threshold is at most 0.80.
C4_ThresholdOnBoundaryPath ==
    /\ (pc = "boundary" /\ result.tier # Null)
          => result.confidence >= config.confidenceThreshold
    /\ (pc \in {"fastpath", "override"} /\ config.confidenceThreshold <= 80)
          => (result.tier # Null /\ result.confidence >= config.confidenceThreshold)
    /\ pc \in {"fastpath", "override"} => result.confidence >= 80

\* C4 witness: the boundary mapping returned a tier with a confidence between
\* the threshold and the lowest fast-path confidence.
C4_Witness ==
    /\ pc = "boundary"
    /\ result.tier # Null
    /\ config.confidenceThreshold > 50
    /\ result.confidence >= config.confidenceThreshold
    /\ result.confidence < 80

\* C5: for increasing boundaries and a positive steepness the returned
\* confidence lies in [0.5, 1.0]: the distance handed to calibrateConfidence
\* is never negative.
C5_ConfidenceInRange ==
    (Returned /\ WellFormedConfig)
        => /\ result.confidence >= 50
           /\ result.confidence <= 100
           /\ pc = "boundary" =>
                BoundaryTier(result.score, config.tierBoundaries).distanceFromBoundary >= 0

\* C5 witness: a weighted score exactly on a boundary, distance 0, confidence 0.5.
C5_Witness ==
    /\ pc = "boundary"
    /\ WellFormedConfig
    /\ result.score = config.tierBoundaries.simpleMedium
    /\ result.confidence = 50

\* The pattern groups that match the trimmed, lower-cased user text.
MatchingGroups ==
    LET t == TrimmedUserText
    IN  {g \in Tiers : \/ g = "SIMPLE" /\ SIMPLE_PATTERNS(t)
                       \/ g = "REASONING" /\ REASONING_PATTERNS(t)
                       \/ g = "COMPLEX" /\ COMPLEX_PATTERNS(t)
                       \/ g = "MEDIUM" /\ MEDIUM_PATTERNS(t)}

\* The fast path returned tier with confidence.
FastPathReturned(tier, confidence) ==
    pc = "fastpath" /\ result.tier = tier /\ result.confidence = confidence

\* C6: the fast path returns the tier of the first group, in the order
\* SIMPLE, REASONING, COMPLEX, MEDIUM, that matches the lower-cased, trimmed
\* user text, with confidence 0.95, 0.90, 0.85, 0.80; a text that matches no
\* group falls through to the weighted scoring.
C6_FirstMatchingGroupWins ==
    Returned =>
        LET t == TrimmedUserText
        IN  CASE SIMPLE_PATTERNS(t)    -> FastPathReturned("SIMPLE", 95)
              [] OTHER ->
            CASE REASONING_PATTERNS(t) -> FastPathReturned("REASONING", 90)
              [] OTHER ->
            CASE COMPLEX_PATTERNS(t)   -> FastPathReturned("COMPLEX", 85)
              [] OTHER ->
            CASE MEDIUM_PATTERNS(t)    -> FastPathReturned("MEDIUM", 80)
              [] OTHER                 -> pc \in {"override", "boundary"}

\* C6 witness: a text that matches the REASONING and the COMPLEX group and not
\* the SIMPLE group was returned as REASONING.
C6_Witness ==
    /\ pc = "fastpath"
    /\ MatchingGroups = {"REASONING", "COMPLEX"}
    /\ result.tier = "REASONING"

\* C7: a prompt that matches a MEDIUM pattern (an imperative coding verb
\* followed by an article, such as "Write a function") is classified MEDIUM
\* with confidence 0.80.
C7_MediumPatternIsMedium ==
    (Returned /\ MEDIUM_PATTERNS(TrimmedUserText))
        => (result.tier = "MEDIUM" /\ result.confidence = 80)

\* C8: on a fast-path hit the result has score 0, the single signal
\* "quick-match: <TIER>" and agenticScore 0, and it is determined by the prompt
\* alone: estimatedTokens, systemPrompt and config do not enter it.
C8_FastPathResultFromPromptAlone ==
    pc = "fastpath" =>
        LET quickMatch == quickPatternMatch(toLowerCase(prompt))
        IN  /\ result.tier \in Tiers
            /\ result = [score |-> 0, tier |-> quickMatch.tier,
                         confidence |-> quickMatch.confidence,
                         signals |-> <<"quick-match: " \o quickMatch.tier>>,
                         agenticScore |-> 0]

\* C8 witness: a fast-path hit for a call with a long input, an agentic system
\* prompt and the strict config.
C8_Witness ==
    /\ pc = "fastpath"
    /\ estimatedTokens > config.tokenCountThresholds.complex
    /\ systemPrompt # <<>>
    /\ config = StrictConfig
    /\ result.signals = <<"quick-match: COMPLEX">>

\* C9: two calls that differ only in systemPrompt return the same tier.
C9_TierIndependentOfSystemPrompt ==
    Returned =>
        \A other \in SystemPrompts :
            classifyByRules(prompt, other, estimatedTokens, config).tier = result.tier

\* The mapping of a weighted score s to a tier and a distance, as the claim
\* states it for boundaries b1 < b2 < b3.
C10_Mapping(s, b1, b2, b3) ==
    CASE s < b1              -> <<"SIMPLE", b1 - s>>
      [] b1 <= s /\ s < b2   -> <<"MEDIUM", Min(s - b1, b2 - s)>>
      [] b2 <= s /\ s < b3   -> <<"COMPLEX", Min(s - b2, b3 - s)>>
      [] s >= b3             -> <<"REASONING", s - b3>>

\* C10: when no fast-path pattern matches and fewer than two reasoning
\* keywords occur, the weighted score is mapped to SIMPLE, MEDIUM, COMPLEX or
\* REASONING by the boundaries, the confidence is calibrated from the distance
\* to the nearest boundary of that tier, and the returned tier is null exactly
\* when that confidence is below config.confidenceThreshold.
C10_BoundaryMapping ==
    (Returned /\ pc # "fastpath" /\ Cardinality(ReasoningKeywordsFound) < 2) =>
        LET b          == config.tierBoundaries
            mapped     == C10_Mapping(result.score, b.simpleMedium, b.mediumComplex,
                                      b.complexReasoning)
            confidence == calibrateConfidence(mapped[2], config.confidenceSteepness)
        IN  /\ pc = "boundary"
            /\ result.confidence = confidence
            /\ result.tier = Null <=> confidence < config.confidenceThreshold
            /\ result.tier # Null => result.tier = mapped[1]

\* C10 witness: a weighted score equal to the lowest boundary was mapped to
\* MEDIUM and returned, its confidence 0.5 not being below the threshold.
C10_Witness ==
    /\ pc = "boundary"
    /\ result.score = config.tierBoundaries.simpleMedium
    /\ result.tier = "MEDIUM"
    /\ result.confidence = config.confidenceThreshold

(***************************************************************************)
(* Properties of the credential loader                                     *)
(***************************************************************************)

\* The last call was getAuth, directly or through getAuthHeader.
LastCallGetsAuth == call.op \in {"getAuth", "getAuthHeader"}

\* C11: loadAuthProfiles runs on the first getAuth after the start and on the
\* first getAuth after each reloadAuth and on no other call, also when the
\* loaded map is empty; every getAuth up to the next reload answers from the
\* map that run loaded, whatever the environment has become.
C11_LoadedOnFirstGetAuthOnly ==
    /\ LastCallGetsAuth => (call.loaded <=> getAuthsSinceReload = 1)
    /\ ~LastCallGetsAuth => ~call.loaded
    /\ getAuthsSinceReload >= 1 => (authCache # <<>> /\ authCache = loadedMap)
    /\ (call.op = "getAuth" /\ getAuthsSinceReload >= 1)
          => call.ret = MapGet(loadedMap[1], call.provider)

\* C11 witness: a second getAuth since the reload answered from the empty map
\* loaded earlier, without loading, in an environment that now has credentials.
C11_Witness ==
    /\ call.op = "getAuth"
    /\ getAuthsSinceReload = 2
    /\ ~call.loaded
    /\ authCache = <<EmptyMap>>
    /\ loadAuthProfiles(environment) # EmptyMap

\* C12: when CLAUDE_CODE_OAUTH_TOKEN is set and no other Anthropic credential
\* source is available, getAuth("anthropic") returns an entry whose token is
\* the value of CLAUDE_CODE_OAUTH_TOKEN.
C12_OAuthTokenVariableIsUsed ==
    (/\ call.op = "getAuth"
     /\ call.provider = "anthropic"
     /\ Truthy(environment.CLAUDE_CODE_OAUTH_TOKEN)
     /\ environment.keychain = <<>>
     /\ environment.ANTHROPIC_API_KEY = <<>>
     /\ environment.ANTHROPIC_AUTH_TOKEN = <<>>
     /\ environment.CLAUDE_CODE_TOKEN = <<>>
     /\ \A i \in 1..Len(possiblePaths) : environment.files[possiblePaths[i]] = Missing)
        => (call.ret # <<>> /\ call.ret[1].token = environment.CLAUDE_CODE_OAUTH_TOKEN)

\* The token a credentials file gives: none when the file is missing, cannot
\* be parsed or holds neither field.
C20_FileToken(file) ==
    IF file = Missing \/ file = Unparseable THEN <<>>
    ELSE LET data == file[1][1]
         IN  IF data.token \notin {<<>>, <<"">>} THEN data.token
             ELSE IF data.claudeAiOauth = <<>> THEN <<>>
             ELSE IF data.claudeAiOauth[1].accessToken \in {<<>>, <<"">>} THEN <<>>
             ELSE data.claudeAiOauth[1].accessToken

\* The Anthropic sources in their order of precedence, each with the token it
\* gives, if any.
C20_Sources(env) ==
    << IF env.keychain # <<>> /\ StartsWith(trim(env.keychain[1]), "sk-ant-")
       THEN <<trim(env.keychain[1])>> ELSE <<>>,
       IF env.ANTHROPIC_API_KEY \in {<<>>, <<"">>} THEN <<>> ELSE env.ANTHROPIC_API_KEY,
       IF env.ANTHROPIC_AUTH_TOKEN \in {<<>>, <<"">>} THEN <<>> ELSE env.ANTHROPIC_AUTH_TOKEN,
       IF env.CLAUDE_CODE_TOKEN \in {<<>>, <<"">>} THEN <<>> ELSE env.CLAUDE_CODE_TOKEN,
       C20_FileToken(env.files["~/.claude/credentials.json"]),
       C20_FileToken(env.files["~/.config/claude/credentials.json"]) >>

\* C20: the Anthropic entry holds the token of the first source that gives
\* one, in the order keychain (accepted only when it starts with "sk-ant-"),
\* ANTHROPIC_API_KEY, ANTHROPIC_AUTH_TOKEN, CLAUDE_CODE_TOKEN, the credentials
\* files in the listed order; there is no entry when no source gives one, and
\* the map holds at most one entry per provider.
C20_AnthropicPrecedence ==
    authCache # <<>> =>
        LET sources == C20_Sources(environment)
            giving  == {i \in 1..Len(sources) : sources[i] # <<>>}
            map     == authCache[1]
        IN  /\ DOMAIN map \subseteq {"anthropic", "openai"}
            /\ \A p \in DOMAIN map : map[p].provider = p
            /\ giving = {} <=> "anthropic" \notin DOMAIN map
            /\ giving # {} =>
                 LET first == CHOOSE i \in giving : \A j \in giving : i <= j
                 IN  /\ map["anthropic"].token = sources[first]
                     /\ map["anthropic"].profileName =
                            IF first = 1 THEN "keychain" ELSE "env"

\* C20 witness: the keychain gave a password that is not a token, both
\* ANTHROPIC_API_KEY and ANTHROPIC_AUTH_TOKEN were set and the first file had
\* a token: the entry holds ANTHROPIC_API_KEY.
C20_Witness ==
    /\ call.op = "getAuth"
    /\ call.provider = "anthropic"
    /\ environment.keychain = <<"hunter2">>
    /\ Truthy(environment.ANTHROPIC_API_KEY)
    /\ Truthy(environment.ANTHROPIC_AUTH_TOKEN)
    /\ C20_FileToken(environment.files[possiblePaths[1]]) # <<>>
    /\ call.ret = <<ProviderAuth("anthropic", "env", environment.ANTHROPIC_API_KEY, <<>>)>>

\* The API keys that the skills of ~/.clawdbot/clawdbot.json named after
\* openai hold, when the file parses.
C21_SkillKeys(env) ==
    IF env.clawdbot \in {Missing, Unparseable} THEN {}
    ELSE IF env.clawdbot[1][1].entries = <<>> THEN {}
    ELSE LET entries == env.clawdbot[1][1].entries[1]
         IN  {entries[i].skillConfig[1].apiKey :
                i \in {j \in 1..Len(entries) :
                         /\ includes(entries[j].skillName, "openai")
                         /\ entries[j].skillConfig # <<>>
                         /\ entries[j].skillConfig[1].apiKey \notin {<<>>, <<"">>}}}

\* Some source of the machine holds a credential for the provider.
C21_HasCredential(env, provider) ==
    CASE provider = "anthropic" ->
           \E i \in 1..Len(C20_Sources(env)) : C20_Sources(env)[i] # <<>>
      [] provider = "openai" ->
           env.OPENAI_API_KEY \notin {<<>>, <<"">>} \/ C21_SkillKeys(env) # {}
      [] OTHER -> FALSE

\* Reading the config fails: the file is missing, reading or parsing it
\* throws, or a skill named after openai is null.
C21_ConfigFails(env) ==
    \/ env.clawdbot \in {Missing, Unparseable}
    \/ /\ env.clawdbot[1][1].entries # <<>>
       /\ \E i \in 1..Len(env.clawdbot[1][1].entries[1]) :
             /\ includes(env.clawdbot[1][1].entries[1][i].skillName, "openai")
             /\ env.clawdbot[1][1].entries[1][i].skillConfig = <<>>

\* Some source fails: the keychain command throws, a credentials file cannot
\* be parsed, or reading the config fails.
C21_SomeSourceFails(env) ==
    \/ env.keychain = <<>>
    \/ \E i \in 1..Len(possiblePaths) : env.files[possiblePaths[i]] = Unparseable
    \/ C21_ConfigFails(env)

\* The call returned undefined or a value: every throw of the sources is
\* caught inside loadAuthProfiles.
C21_Returned == LastCallGetsAuth /\ Len(call.ret) <= 1 /\ authCache # <<>>

\* The Anthropic entry is the one of the first source that gives a token,
\* whatever failed before or after it.
C21_AnthropicKept ==
    \E sources \in {C20_Sources(environment)} :
        \A i \in 1..Len(sources) :
            (sources[i] # <<>> /\ \A j \in 1..(i - 1) : sources[j] = <<>>) =>
                /\ "anthropic" \in DOMAIN authCache[1]
                /\ authCache[1]["anthropic"].token = sources[i]

\* OPENAI_API_KEY is the openai entry when the config gave none.
C21_OpenAIFromEnvironment ==
    (/\ environment.OPENAI_API_KEY \notin {<<>>, <<"">>}
     /\ \/ environment.clawdbot \in {Missing, Unparseable}
        \/ "openai" \notin DOMAIN OpenAIFromSkills(
               IF environment.clawdbot[1][1].entries = <<>> THEN <<>>
               ELSE environment.clawdbot[1][1].entries[1], 1, EmptyMap))
        => /\ "openai" \in DOMAIN authCache[1]
           /\ authCache[1]["openai"].apiKey = environment.OPENAI_API_KEY
           /\ authCache[1]["openai"].profileName = "env"

\* getAuthHeader gave undefined for a provider that has a credential.
C21_HeaderMissesCredential ==
    /\ call.op = "getAuthHeader"
    /\ call.ret = <<>>
    /\ C21_HasCredential(environment, call.provider)

\* C21: when the keychain command throws, a credentials file cannot be parsed
\* or reading ~/.clawdbot/clawdbot.json fails, getAuth and getAuthHeader
\* return, the Anthropic entry of the first source that gives a token is in
\* the map, OPENAI_API_KEY is the openai entry when the config gave none, and
\* getAuthHeader returns undefined only for a provider for which no source
\* holds a credential.
C21_LoadingNeverFailsTheCaller ==
    (LastCallGetsAuth /\ C21_SomeSourceFails(environment)) =>
        /\ C21_Returned
        /\ C21_AnthropicKept
        /\ C21_OpenAIFromEnvironment
        /\ ~C21_HeaderMissesCredential

\* What C21 holds apart from the provider whose credential was lost.
C21_AllButLostCredential ==
    (LastCallGetsAuth /\ C21_SomeSourceFails(environment)) =>
        /\ C21_Returned
        /\ C21_AnthropicKept
        /\ C21_OpenAIFromEnvironment
        /\ C21_HeaderMissesCredential =>
             /\ call.provider = "openai"
             /\ environment.OPENAI_API_KEY \in {<<>>, <<"">>}
             /\ environment.clawdbot \notin {Missing, Unparseable}
             /\ C21_ConfigFails(environment)

(***************************************************************************)
(* Properties of the weighted scoring                                      *)
(***************************************************************************)

\* The fifteen dimensions scored for the call under way.
ScoredDimensions ==
    UserTextDimensions(prompt, toLowerCase(prompt), estimatedTokens, config)
        \o <<scoreAgenticTask(FullText(prompt, systemPrompt),
                              config.agenticTaskKeywords).dimensionScore>>

\* The sum of score * weight over the weighted names among the scored
\* dimensions.
RECURSIVE C17_SumOver(_, _, _)
C17_SumOver(names, dimensions, weights) ==
    IF names = {} THEN 0
    ELSE LET name == CHOOSE n \in names : TRUE
             d    == CHOOSE i \in 1..Len(dimensions) : dimensions[i].name = name
         IN  dimensions[d].score * weights[name]
             + C17_SumOver(names \ {name}, dimensions, weights)

C17_WeightedScore(dimensions, weights) ==
    LET scored == {dimensions[i].name : i \in 1..Len(dimensions)}
    IN  C17_SumOver(scored \cap DOMAIN weights, dimensions, weights)

\* C16: when no fast-path group matches and the user text contains at least
\* two distinct reasoning keywords, the tier is REASONING for every weighted
\* score and every confidenceThreshold, never null, the confidence is the
\* maximum of 0.85 and the confidence calibrated from max(weighted score, 0.3),
\* and the score is the weighted score itself.
C16_ReasoningOverride ==
    (Returned /\ pc # "fastpath" /\ Cardinality(ReasoningKeywordsFound) >= 2) =>
        /\ pc = "override"
        /\ result.tier = "REASONING"
        /\ result.confidence =
               Max(calibrateConfidence(Max(result.score, 300), config.confidenceSteepness),
                   85)
        /\ result.score = C17_WeightedScore(ScoredDimensions, config.dimensionWeights)

\* C16 witness: the override returned REASONING for a weighted score below
\* simpleMedium with a confidence below confidenceThreshold.
C16_Witness ==
    /\ pc = "override"
    /\ result.tier = "REASONING"
    /\ result.score < config.tierBoundaries.simpleMedium
    /\ result.confidence < config.confidenceThreshold

\* C17: the returned weighted score is the sum over the scored dimensions of
\* score * config.dimensionWeights[name]; a dimension without a weight adds 0;
\* the agenticTask dimension is part of the sum.
C17_ScoreIsWeightedSum ==
    pc \in {"override", "boundary"} =>
        \E dimensions \in {ScoredDimensions} :
            /\ result.score = C17_WeightedScore(dimensions, config.dimensionWeights)
            /\ \E i \in 1..Len(dimensions) : dimensions[i].name = "agenticTask"

\* C17 witness: with the system prompt the only dimension scored is
\* agenticTask, 1.0 with weight 0.04, and the score is 0.04.
C17_Witness ==
    /\ pc = "boundary"
    /\ result.signals = <<"agentic (edit, deploy, install)">>
    /\ config.dimensionWeights.agenticTask = 4
    /\ result.score = 40


\* The number of distinct keywords of a list whose lower-cased form occurs in
\* the lower-cased user text.
C18_Count(keywords) ==
    Cardinality({kw \in {keywords[i] : i \in 1..Len(keywords)} :
                    includes(toLowerCase(prompt), toLowerCase(kw))})

\* The table of the keyword dimensions: score in tenths for n matches.
C18_Expected(name, n) ==
    CASE name = "codePresence"       -> IF n >= 2 THEN 10 ELSE IF n = 1 THEN 5 ELSE 0
      [] name = "technicalTerms"     -> IF n >= 4 THEN 10 ELSE IF n >= 2 THEN 5 ELSE 0
      [] name = "negationComplexity" -> IF n >= 3 THEN 5 ELSE IF n >= 2 THEN 3 ELSE 0
      [] name = "constraintCount"    -> IF n >= 3 THEN 7 ELSE IF n >= 1 THEN 3 ELSE 0
      [] name = "simpleIndicators"   -> IF n >= 1 THEN -10 ELSE 0

\* The keyword dimensions of the table, the list each one counts and the label
\* of its signal.
C18_KeywordDimensions ==
    { [name |-> "codePresence",       list |-> "codeKeywords",         label |-> "code"],
      [name |-> "technicalTerms",     list |-> "technicalKeywords",    label |-> "technical"],
      [name |-> "negationComplexity", list |-> "negationKeywords",     label |-> "negation"],
      [name |-> "constraintCount",    list |-> "constraintIndicators", label |-> "constraints"],
      [name |-> "simpleIndicators",   list |-> "simpleKeywords",       label |-> "simple"] }

\* C18: when the weighted scoring is reached, each keyword dimension scores
\* by the table on the number of distinct keywords of its list found in the
\* lower-cased user text (high threshold first), and its signal is among the
\* signals of the result exactly when that score is not 0, the 'none' value.
C18_KeywordThresholds ==
    pc \in {"override", "boundary"} =>
        \E dimensions \in {ScoredDimensions} :
            \A k \in C18_KeywordDimensions :
                \E expected \in {C18_Expected(k.name, C18_Count(config[k.list]))} :
                    /\ \E i \in 1..Len(dimensions) :
                          /\ dimensions[i].name = k.name
                          /\ dimensions[i].score = expected
                          /\ (dimensions[i].signal # Null) <=> (expected # 0)
                    /\ (\E j \in 1..Len(result.signals) :
                            StartsWith(result.signals[j], k.label \o " (")) <=> (expected # 0)

\* Four technical keywords, two negations, two constraints and one code
\* keyword scored at once.
C18_Witness ==
    /\ pc = "boundary"
    /\ C18_Count(config.technicalKeywords) = 4
    /\ C18_Count(config.negationKeywords) = 2
    /\ C18_Count(config.constraintIndicators) = 2
    /\ C18_Count(config.codeKeywords) = 1
    /\ result.signals = <<"code (def)", "technical (tcp, dns, ssh)", "constraints (at least, within)",
                          "negation (never, none)">>

\* The number of agentic keywords found in the lower-cased concatenation of
\* system prompt and user prompt.
C19_Count ==
    Cardinality({kw \in {config.agenticTaskKeywords[i] : i \in 1..Len(config.agenticTaskKeywords)} :
                    includes(FullText(prompt, systemPrompt), toLowerCase(kw))})

\* C19: when the weighted scoring is reached, the agenticTask dimension scores
\* 1.0 for four or more agentic keywords found in system prompt and user
\* prompt together, 0.6 for three, 0.2 for one or two and 0 for none, and the
\* agenticScore of the result is that score.
C19_AgenticScore ==
    pc \in {"override", "boundary"} =>
        \E expected \in {IF C19_Count >= 4 THEN 10
                          ELSE IF C19_Count = 3 THEN 6
                          ELSE IF C19_Count \in {1, 2} THEN 2 ELSE 0} :
            /\ result.agenticScore = expected
            /\ \E dimensions \in {ScoredDimensions} :
                  \E i \in 1..Len(dimensions) :
                      dimensions[i].name = "agenticTask" /\ dimensions[i].score = expected

\* Three agentic keywords, two of them in the system prompt only and one in
\* the user prompt only.
C19_Witness ==
    /\ pc = "boundary"
    /\ systemPrompt = <<"Edit and deploy.">>
    /\ includes(toLowerCase(prompt), "install")
    /\ result.agenticScore = 6


(***************************************************************************)
(* Properties of the router                                                *)
(***************************************************************************)

\* The tiers from lowest to highest.
C13_Order == <<"SIMPLE", "MEDIUM", "COMPLEX", "REASONING">>

C13_Rank(tier) == CHOOSE i \in 1..4 : C13_Order[i] = tier

\* The tier the classifiers gave the routed request.
C13_ClassifiedTier == IF result.tier # Null THEN result.tier ELSE llmResult[1].tier

C13_LargeContext == estimatedTokens > 100000

C13_StructuredOutput ==
    /\ systemPrompt # <<>>
    /\ \/ includes(toLowerCase(systemPrompt[1]), "json")
       \/ includes(toLowerCase(systemPrompt[1]), "structured")

C14_Done(r) == requests[r].state \in {"COMPLETED", "FAILED"}

\* What holds of the upstream attempts of request r at every moment.
C14_Attempts(r) ==
    \E req \in {requests[r]} :
        /\ Len(req.tried) <= 3
        /\ req.tier # Null =>
             \E models \in {<<ModelCatalog[req.tier].primary>>
                                \o ModelCatalog[req.tier].fallbackChain} :
                 /\ Len(req.tried) <= Len(models)
                 /\ \A i \in 1..Len(req.tried) : req.tried[i] = models[i]
                 /\ \A i, j \in 1..Len(req.tried) : i # j => req.tried[i] # req.tried[j]
                 /\ (req.state = "FAILED" /\ ~req.cancelled) =>
                        /\ req.status \notin {200, Pending}
                        /\ Len(req.tried) = 3 \/ Len(req.tried) = Len(models)
        /\ req.state \in {"STREAMING", "COMPLETED"} => req.status = 200
        /\ req.status = 200 => req.state \in {"STREAMING", "COMPLETED", "FAILED"}
        /\ (req.status = 200 /\ req.state = "FAILED") => req.cancelled

C15_CacheBounded ==
    /\ [](Cardinality(classificationCache) <= 1000)
    /\ [][(Cardinality(classificationCache) = 1000 /\ classificationCache' # {}
             /\ \E r \in RequestIds :
                  classifications[r].pc = "insert" /\ classifications'[r].pc = "put") =>
            /\ classificationCache' \subseteq classificationCache
            /\ Cardinality(classificationCache \ classificationCache') = 1
            /\ \A e \in classificationCache \ classificationCache' :
                  \A o \in classificationCache : e.insertedAt <= o.insertedAt]_vars

\* Two inserts of new prompts into a full cache are over: the two oldest
\* entries are gone, the cache is full again.
C15_Witness ==
    /\ Cardinality(classificationCache) = 1000
    /\ \A r \in RequestIds : classifications[r].pc = "done"
    /\ \E e \in classificationCache : e.fingerprint = 1001
    /\ \E e \in classificationCache : e.fingerprint = 1002
    /\ ~\E e \in classificationCache : e.fingerprint \in {1, 2}


(***************************************************************************)
(* Properties of the plugin entry                                          *)
(***************************************************************************)

\* The lines of the log at level error that report a failed start.
C22_FailedToStart ==
    {i \in 1..Len(log) :
        /\ log[i].level = "error"
        /\ StartsWith(log[i].message, "Failed to start BlockRun proxy: ")}

\* C22: startProxy is called with the wallet key that was resolved, after the
\* lines about the wallet were logged; an active proxy is set only when
\* startProxy has resolved; when startProxy has rejected, the last line of the
\* log is the error "Failed to start BlockRun proxy: ..." at level error, no
\* active proxy is set and activate has completed without throwing.
C22_ActivateOrder ==
    /\ plugin.started # <<>> =>
          /\ plugin.wallet # <<>>
          /\ plugin.started[1].walletKey = plugin.wallet[1].key
          /\ Len(log) >= 1
          /\ log[1].level = "info"
          /\ \E i \in 1..Len(log[1].message) :
                SubSeq(log[1].message, i, Len(log[1].message)) = plugin.wallet[1].address
    /\ plugin.activeProxy # <<>> =>
          /\ plugin.outcome = "resolved"
          /\ plugin.started # <<>>
          /\ C22_FailedToStart = {}
    /\ plugin.outcome = "rejected" =>
          /\ plugin.pc = "done"
          /\ C22_FailedToStart = {Len(log)}
          /\ plugin.activeProxy = <<>>
          /\ ~plugin.threw

\* startProxy rejected with a number after the proxy had reported an error:
\* the failure is logged with the number as text, no proxy is active.
C22_Witness ==
    /\ plugin.outcome = "rejected"
    /\ plugin.pc = "done"
    /\ plugin.wallet # <<>> /\ plugin.wallet[1].source = "generated"
    /\ Len(log) = 4
    /\ log[3] = [level |-> "error", message |-> "BlockRun proxy error: listen EADDRINUSE"]
    /\ log[4] = [level |-> "error", message |-> "Failed to start BlockRun proxy: 42"]
    /\ plugin.activeProxy = <<>>

====
